---- MODULE Spec2Model ----
(***************************************************************************)
(* Verification model of Swift-CANyonero:                                  *)
(*   - the classic ISO 15765-2 transceiver (libCANyonero/include/ISOTP.hpp)*)
(*   - the J2534 adapter PDU codec and session (canyonero_protocol.cpp)    *)
(*   - the J2534 device manager (ecuconnect.cpp)                           *)
(* Each part has its own specification over its own group of variables;    *)
(* the variables of the other groups are pinned to their initial value.    *)
(***************************************************************************)
EXTENDS Integers, Sequences, FiniteSets, TLC

VARIABLES
    \* ---- ISO-TP lossless link: two transceivers of the same configuration
    snd,        \* the sending Transceiver object
    rcv,        \* the receiving Transceiver object
    c2r,        \* CAN frames in flight, sender -> receiver
    c2s,        \* CAN frames in flight, receiver -> sender
    pdu,        \* the payload handed to writePDU
    phase,      \* "start" before writePDU, "running" afterwards; SpecStrict: the last call
    delivered,  \* the data of every Process action the receiver returned
    sndAct,     \* type of the last Action the sender returned
    rcvAct,     \* type of the last Action the receiver returned
    \* ---- PDU codec round trip
    cdPdu,      \* the PDU under test
    cdWire,     \* result of PDU::serialize / PDU::frame
    cdOut,      \* result of PDU::parse / PDU::PDU(frame)
    cdStage,    \* "new", "serialized", "parsed", "framed", "reparsed"
    \* ---- session (class Protocol), its transport and its threads
    sess,       \* receiveBuffer_, frameQueue_, expectedResponse_, capturedResponse_, asyncMode_
    inbound,    \* bytes the transport holds for the next receive()
    wire,       \* the frames handed to transport.send(), with the sending thread
    answered,   \* how many of them the adapter has answered
    reply,      \* per caller: the PDUs the adapter emits on its request
    peerStream, \* bytes the adapter still emits unsolicited
    streamPdus, \* the PDUs the adapter emits unsolicited, in order
    splitReads, \* whether the network hands over what the adapter wrote in pieces
    pc,         \* per thread: position in its code (thread 0 pumps receiveMessages)
    chunk,      \* per thread: the data its transport.receive() returned
    start,      \* per caller: startTime of waitResponse
    result,     \* per caller: what the request returned
    now,        \* steady clock, in units of the request timeout
    rxLog,      \* history: the bytes in the order transport.receive() returned them
    appLog,     \* history: the bytes in the order they were appended to receiveBuffer_
    parsedLog,  \* history: the PDUs in the order the scanner parsed them
    fifoLog,    \* history: the frames in the order they were pushed to frameQueue_
    polled,     \* the frames receiveMessages has returned, in order
    \* ---- device manager (class DeviceManager) and its polling threads
    devices,         \* devices_: device id -> Device
    channelToDevice, \* channelToDevice_: channel id -> device id
    nextDeviceId,    \* nextDeviceId_
    mutexOwner,      \* who holds the manager's mutex_
    terminated,      \* std::terminate has been called
    apiPc,           \* the application thread: "idle", or "joining" inside disconnect
    apiArg,          \* the channel id of the disconnect that is running
    pollPc,          \* per device id: position of its polling thread
    pollFrames,      \* per device id: the frames its receiveMessages returned
    rxLeft,          \* frames the adapter will still deliver
    dmCall,          \* the last device-manager call that returned, with its result
    reader           \* a second caller thread, inside readMsgs or not

isotpVars == <<snd, rcv, c2r, c2s, pdu, phase, delivered, sndAct, rcvAct>>
codecVars == <<cdPdu, cdWire, cdOut, cdStage>>
sessVars == <<sess, inbound, wire, answered, reply, peerStream, streamPdus, splitReads, pc, chunk, start,
              result, now, rxLog, appLog, parsedLog, fifoLog, polled>>
dmVars == <<devices, channelToDevice, nextDeviceId, mutexOwner, terminated, apiPc, apiArg,
            pollPc, pollFrames, rxLeft, dmCall, reader>>

vars == <<snd, rcv, c2r, c2s, pdu, phase, delivered, sndAct, rcvAct,
          cdPdu, cdWire, cdOut, cdStage,
          sess, inbound, wire, answered, reply, peerStream, streamPdus, splitReads, pc, chunk, start,
          result, now, rxLog, appLog, parsedLog, fifoLog, polled,
          devices, channelToDevice, nextDeviceId, mutexOwner, terminated, apiPc, apiArg,
          pollPc, pollFrames, rxLeft, dmCall, reader>>

\* what the actions of one part leave alone
notIsotp == <<codecVars, sessVars, dmVars>>
notCodec == <<isotpVars, sessVars, dmVars>>
notSess == <<isotpVars, codecVars, dmVars>>
notDm == <<isotpVars, codecVars, sessVars>>

Min(a, b) == IF a < b THEN a ELSE b
Max(a, b) == IF a > b THEN a ELSE b

(***************************************************************************)
(* Bounds                                                                  *)
(***************************************************************************)
MaxLen == 16            \* every payload length 0..MaxLen is tried
MaxBlockSize == 2       \* configured block sizes 0..MaxBlockSize
MaxPayloadLen == 2      \* PDU payloads of every length 0..MaxPayloadLen
MaxTime == 2            \* the clock runs up to MaxTime request timeouts
MaxStreamPDUs == 2      \* PDUs in a stream of PDUs and garbage
MaxReplyPDUs == 3       \* PDUs the adapter sends in answer to one request
MaxIds == 3             \* device and channel ids 1..MaxIds are handed out
MaxRxFrames == 2        \* frames the adapter delivers to the polling threads
MaxMsgs == 3            \* messages of one writeMsgs call, over every combination
MaxWrites == 1          \* writeMsgs calls in a row
MaxFeeds == 4           \* frames fed to a transceiver under test
MaxKLineFeeds == 3      \* frames fed to a K-Line transceiver
MaxFilters == 2         \* filter ids 1..MaxFilters are handed out
MaxStrictFeeds == 3     \* frames fed to a strict transceiver
MaxFDLen == 126         \* FD payloads of every length 1..MaxFDLen

(***************************************************************************)
(* ISO-TP constants                                                        *)
(***************************************************************************)
maximumTransferSize == 4095
maximumUnconfirmedBlocks == 1000
padding == 170
\* a length that makes the 4-bit sequence number wrap (more than 16 CFs)
WrapLen == 125

\* std::vector::resize(width, padding)
Resize(v, w) ==
    IF Len(v) >= w THEN SubSeq(v, 1, w)
    ELSE v \o [i \in 1..(w - Len(v)) |-> padding]

Frame_flowControl(status, blockSize, separationTime, width) ==
    Resize(<<48 + status, blockSize % 256, separationTime % 256>>, width)

Frame_single(bytes, width) ==
    Resize(<<Len(bytes) % 256>> \o bytes, width)

Frame_first(pduLength, bytes, width) ==
    <<16 + ((pduLength \div 256) % 16), pduLength % 256>> \o SubSeq(bytes, 1, width - 2)

\* a plausible slip: the last frame left unpadded
Frame_consecutive_unpadded(sequenceNumber, bytes, count, width) ==
    <<32 + sequenceNumber>> \o SubSeq(bytes, 1, count)

Frame_consecutive(sequenceNumber, bytes, count, width) ==
    Resize(<<32 + sequenceNumber>> \o SubSeq(bytes, 1, count), width)

Frame_type(bytes) ==
    LET hi == bytes[1] \div 16 IN
    IF hi = 0 THEN "single"
    ELSE IF hi = 1 THEN "first"
    ELSE IF hi = 2 THEN "consecutive"
    ELSE IF hi = 3 THEN "flowControl"
    ELSE "invalid"

Frame_flowStatus(bytes) ==
    LET lo == bytes[1] % 16 IN
    IF lo = 0 THEN "clearToSend"
    ELSE IF lo = 1 THEN "wait"
    ELSE IF lo = 2 THEN "overflow"
    ELSE "invalid"

Frame_singleLength(bytes) == bytes[1] % 16
Frame_firstLength(bytes) == (bytes[1] % 16) * 256 + bytes[2]
Frame_consecutiveSequenceNumber(bytes) == bytes[1] % 16
Frame_blockSize(bytes) == bytes[2]

\* returns uint16_t
separationTimeToMicroseconds(stMin) ==
    IF stMin < 128 THEN (stMin * 1000) % 65536
    ELSE IF stMin < 241 THEN 0
    ELSE IF stMin < 250 THEN 100 * (stMin - 240)
    ELSE 0

Frame_separationTime(bytes) == separationTimeToMicroseconds(bytes[3])

(***************************************************************************)
(* Transceiver::Action                                                     *)
(***************************************************************************)
ActProcess(data) ==
    [type |-> "process", data |-> data, frames |-> <<>>, separationTime |-> 0]
ActWriteFrames(frames, st) ==
    [type |-> "writeFrames", data |-> <<>>, frames |-> frames, separationTime |-> st]
ActWaitForMore ==
    [type |-> "waitForMore", data |-> <<>>, frames |-> <<>>, separationTime |-> 0]
ActProtocolViolation ==
    [type |-> "protocolViolation", data |-> <<>>, frames |-> <<>>, separationTime |-> 0]

(***************************************************************************)
(* Transceiver                                                             *)
(***************************************************************************)
NewTransceiver(behavior, width, blockSize, rxSeparationTime, txSeparationTime) ==
    [behavior |-> behavior, width |-> width, blockSize |-> blockSize,
     rxSeparationTime |-> rxSeparationTime, txSeparationTime |-> txSeparationTime,
     state |-> "idle",
     sendingPayload |-> <<>>, sendingSequenceNumber |-> 0,
     receivingPayload |-> <<>>, receivingSequenceNumber |-> 0,
     receivingPendingCounter |-> 0, receivingUnconfirmedFramesCounter |-> 0]

\* a plausible slip: the sequence numbers survive a reset
reset_keepsSequenceNumbers(t) ==
    [t EXCEPT !.state = "idle",
              !.sendingPayload = <<>>,
              !.receivingPayload = <<>>,
              !.receivingPendingCounter = 0,
              !.receivingUnconfirmedFramesCounter = 0]

reset(t) ==
    [t EXCEPT !.state = "idle",
              !.sendingPayload = <<>>, !.sendingSequenceNumber = 0,
              !.receivingPayload = <<>>, !.receivingSequenceNumber = 0,
              !.receivingPendingCounter = 0,
              !.receivingUnconfirmedFramesCounter = 0]

\* a plausible slip: a transfer in progress is not looked at
writePDU_whileBusy(t, bytes) ==
    IF Len(bytes) > maximumTransferSize THEN [t |-> t, a |-> ActProtocolViolation]
    ELSE IF Len(bytes) < t.width
    THEN [t |-> t, a |-> ActWriteFrames(<<Frame_single(bytes, t.width)>>, 0)]
    ELSE LET firstPayload == t.width - 2 IN
         [t |-> [t EXCEPT !.state = "sending",
                          !.sendingPayload =
                              IF Len(bytes) > firstPayload
                              THEN SubSeq(bytes, firstPayload + 1, Len(bytes))
                              ELSE <<>>,
                          !.sendingSequenceNumber = 1],
          a |-> ActWriteFrames(<<Frame_first(Len(bytes), bytes, t.width)>>, 0)]

writePDU(t, bytes) ==
    IF Len(bytes) > maximumTransferSize THEN [t |-> t, a |-> ActProtocolViolation]
    ELSE IF t.state # "idle" THEN [t |-> t, a |-> ActProtocolViolation]
    ELSE IF Len(bytes) < t.width
    THEN [t |-> t, a |-> ActWriteFrames(<<Frame_single(bytes, t.width)>>, 0)]
    ELSE LET firstPayload == t.width - 2 IN
         [t |-> [t EXCEPT !.state = "sending",
                          !.sendingPayload =
                              IF Len(bytes) > firstPayload
                              THEN SubSeq(bytes, firstPayload + 1, Len(bytes))
                              ELSE <<>>,
                          !.sendingSequenceNumber = 1],
          a |-> ActWriteFrames(<<Frame_first(Len(bytes), bytes, t.width)>>, 0)]

\* a plausible slip: the block size of the FlowControl is not honoured
Burst_ignoresBlockSize(payload, sn, n, width) ==
    LET chunkSize == width - 1
        count == IF payload = <<>> THEN 1 ELSE (Len(payload) + chunkSize - 1) \div chunkSize
    IN  [frames |-> [k \in 1..count |->
                        Frame_consecutive((sn + (k - 1)) % 16,
                                          SubSeq(payload, (k - 1) * chunkSize + 1, Len(payload)),
                                          Min(chunkSize, Len(payload) - (k - 1) * chunkSize),
                                          width)],
         payload |-> <<>>,
         exhausted |-> TRUE,
         sn |-> (sn + (count - 1)) % 16]

\* the for loop of parseFlowControlFrame, n iterations at most: iteration i
\* (from 0) sends the chunk that starts at offset i * (width - 1) with the
\* sequence number advanced i times; the loop ends with the iteration that
\* empties the payload (the first one, if the payload is empty already).
Burst(payload, sn, n, width) ==
    LET chunkSize == width - 1
        needed == IF payload = <<>> THEN 1 ELSE (Len(payload) + chunkSize - 1) \div chunkSize
        count == Min(n, needed)
        nextChunkSize(i) == Min(chunkSize, Len(payload) - i * chunkSize)
    IN  [frames |-> [k \in 1..count |->
                        Frame_consecutive((sn + (k - 1)) % 16,
                                          SubSeq(payload, (k - 1) * chunkSize + 1, Len(payload)),
                                          nextChunkSize(k - 1), width)],
         payload |-> SubSeq(payload, count * chunkSize + 1, Len(payload)),
         exhausted |-> count * chunkSize >= Len(payload),
         sn |-> IF count * chunkSize >= Len(payload) THEN (sn + (count - 1)) % 16
                ELSE (sn + count) % 16]

parseFlowControlFrame(t, bytes) ==
    IF Len(bytes) < 3 THEN [t |-> t, a |-> ActProtocolViolation]
    ELSE IF Frame_type(bytes) # "flowControl" THEN [t |-> t, a |-> ActProtocolViolation]
    ELSE IF Frame_flowStatus(bytes) = "clearToSend"
    THEN LET numberOfUnconfirmedFrames ==
                 IF Frame_blockSize(bytes) = 0 THEN maximumUnconfirmedBlocks
                 ELSE Frame_blockSize(bytes)
             b == Burst(t.sendingPayload, t.sendingSequenceNumber,
                        numberOfUnconfirmedFrames, t.width)
             st == Max(Frame_separationTime(bytes), t.txSeparationTime)
         IN  [t |-> IF b.exhausted THEN reset(t)
                    ELSE [t EXCEPT !.sendingPayload = b.payload,
                                   !.sendingSequenceNumber = b.sn],
              a |-> ActWriteFrames(b.frames, st)]
    ELSE IF Frame_flowStatus(bytes) = "wait" THEN [t |-> t, a |-> ActWaitForMore]
    ELSE [t |-> t, a |-> ActProtocolViolation]

parseDataFrame(t, bytes) ==
    LET ty == Frame_type(bytes) IN
    IF ty = "single"
    THEN IF t.state # "idle" THEN [t |-> t, a |-> ActProtocolViolation]
         ELSE LET pduLength == Frame_singleLength(bytes) IN
              IF pduLength = 0 THEN [t |-> t, a |-> ActProtocolViolation]
              ELSE IF pduLength > Len(bytes) - 1 THEN [t |-> t, a |-> ActProtocolViolation]
              ELSE IF pduLength > 7 THEN [t |-> t, a |-> ActProtocolViolation]
              ELSE [t |-> t, a |-> ActProcess(SubSeq(bytes, 2, 1 + pduLength))]
    ELSE IF ty = "first"
    THEN IF t.state # "idle" THEN [t |-> t, a |-> ActProtocolViolation]
         ELSE IF Len(bytes) # t.width THEN [t |-> t, a |-> ActProtocolViolation]
         ELSE LET pduLength == Frame_firstLength(bytes) IN
              IF pduLength < 8 THEN [t |-> t, a |-> ActProtocolViolation]
              ELSE [t |-> [t EXCEPT
                        !.receivingPayload = SubSeq(bytes, 3, Len(bytes)),
                        !.receivingPendingCounter = (pduLength - (t.width - 2)) % 65536,
                        !.receivingUnconfirmedFramesCounter =
                            IF t.blockSize = 0 THEN maximumUnconfirmedBlocks
                            ELSE t.blockSize,
                        !.state = "receiving",
                        !.receivingSequenceNumber = 1],
                    a |-> ActWriteFrames(
                            <<Frame_flowControl(0, t.blockSize, t.rxSeparationTime, t.width)>>, 0)]
    ELSE IF ty = "consecutive"
    THEN IF t.state # "receiving" THEN [t |-> t, a |-> ActProtocolViolation]
         ELSE IF Len(bytes) # t.width THEN [t |-> t, a |-> ActProtocolViolation]
         ELSE IF Frame_consecutiveSequenceNumber(bytes) # t.receivingSequenceNumber
         THEN [t |-> t, a |-> ActProtocolViolation]
         ELSE LET length == Min(t.width - 1, t.receivingPendingCounter)
                  payload == t.receivingPayload \o SubSeq(bytes, 2, 1 + length)
                  pending == t.receivingPendingCounter - length
                  unconfirmed == (t.receivingUnconfirmedFramesCounter - 1) % 65536
                  t1 == [t EXCEPT
                            !.receivingSequenceNumber = (t.receivingSequenceNumber + 1) % 16,
                            !.receivingPayload = payload,
                            !.receivingPendingCounter = pending]
              IN  IF pending = 0
                  THEN [t |-> reset(t1), a |-> ActProcess(payload)]
                  ELSE IF unconfirmed > 0
                  THEN [t |-> [t1 EXCEPT !.receivingUnconfirmedFramesCounter = unconfirmed],
                        a |-> ActWaitForMore]
                  ELSE [t |-> [t1 EXCEPT !.receivingUnconfirmedFramesCounter = t.blockSize],
                        a |-> ActWriteFrames(
                            <<Frame_flowControl(0, t.blockSize, t.rxSeparationTime, t.width)>>, 0)]
    ELSE [t |-> t, a |-> ActProtocolViolation]

didReceiveFrame_noRetry(t, bytes) ==
    IF bytes = <<>> THEN [t |-> t, a |-> ActProtocolViolation]
    ELSE IF Len(bytes) > t.width THEN [t |-> t, a |-> ActProtocolViolation]
    ELSE LET first == IF t.state = "sending" THEN parseFlowControlFrame(t, bytes)
                      ELSE parseDataFrame(t, bytes)
         IN  IF t.behavior = "strict" THEN first
             ELSE IF first.a.type = "protocolViolation"
                  THEN [t |-> reset(first.t), a |-> ActWaitForMore]
                  ELSE first

didReceiveFrame(t, bytes) ==
    IF bytes = <<>> THEN [t |-> t, a |-> ActProtocolViolation]
    ELSE IF Len(bytes) > t.width THEN [t |-> t, a |-> ActProtocolViolation]
    ELSE LET first == IF t.state = "sending" THEN parseFlowControlFrame(t, bytes)
                      ELSE parseDataFrame(t, bytes)
         IN  IF t.behavior = "strict" THEN first
             ELSE IF first.a.type = "protocolViolation"
                  THEN LET second == parseDataFrame(reset(first.t), bytes) IN
                       IF second.a.type = "protocolViolation"
                       THEN [t |-> second.t, a |-> ActWaitForMore]
                       ELSE second
                  ELSE first

(***************************************************************************)
(* TransceiverFD (libCANyonero/include/ISOTPFD.hpp)                        *)
(***************************************************************************)
\* the classic frame widths; ISOTPFD.hpp uses them, the header that declares
\* them is not among the sources
standardFrameWidth == 8
extendedFrameWidth == 7

maximumFDStandardFrameWidth == 64
maximumFDExtendedFrameWidth == 63
\* std::numeric_limits<uint16_t>::max()
UINT16_MAX == 65535

isValidCANFDLength(length) == length \in (0..8) \cup {12, 16, 20, 24, 32, 48, 64}

nextValidCANFDLength(length) ==
    IF length <= 8 THEN length
    ELSE IF length <= 12 THEN 12
    ELSE IF length <= 16 THEN 16
    ELSE IF length <= 20 THEN 20
    ELSE IF length <= 24 THEN 24
    ELSE IF length <= 32 THEN 32
    ELSE IF length <= 48 THEN 48
    ELSE 64

defaultFDMaximumFrameWidth(extendedMode) ==
    IF extendedMode THEN maximumFDExtendedFrameWidth ELSE maximumFDStandardFrameWidth

isValidFDFrameWidth_asStandard(width, extendedMode) ==
    IF width > maximumFDStandardFrameWidth THEN FALSE ELSE isValidCANFDLength(width)

isValidFDFrameWidth(width, extendedMode) ==
    IF extendedMode
    THEN IF width > maximumFDExtendedFrameWidth THEN FALSE
         ELSE isValidCANFDLength((width + 1) % 256)
    ELSE IF width > maximumFDStandardFrameWidth THEN FALSE
         ELSE isValidCANFDLength(width)

nextValidFDFrameWidth(requiredWidth, extendedMode) ==
    IF extendedMode
    THEN (nextValidCANFDLength((requiredWidth + 1) % 256) - 1) % 256
    ELSE nextValidCANFDLength(requiredWidth)

singleFramePayloadCapacityFD(width) ==
    IF width > standardFrameWidth THEN (width - 2) % 256 ELSE (width - 1) % 256

resolveMaximumFrameWidth(mode, requestedWidth) ==
    LET extendedMode == mode = "extended"
        minimumWidth == IF extendedMode THEN extendedFrameWidth ELSE standardFrameWidth
        maximumWidth == defaultFDMaximumFrameWidth(extendedMode)
        clamped == Max(minimumWidth, Min(requestedWidth, maximumWidth))
        valid == IF isValidFDFrameWidth(clamped, extendedMode) THEN clamped
                 ELSE nextValidFDFrameWidth(clamped, extendedMode)
    IN  IF requestedWidth = 0 THEN maximumWidth ELSE Min(valid, maximumWidth)

NewTransceiverFD(behavior, mode, blockSize, rxSeparationTime, txSeparationTime, frameWidth) ==
    [behavior |-> behavior, mode |-> mode,
     maxFrameWidth |-> resolveMaximumFrameWidth(mode, frameWidth),
     blockSize |-> blockSize,
     rxSeparationTime |-> rxSeparationTime, txSeparationTime |-> txSeparationTime,
     state |-> "idle",
     sendingPayload |-> <<>>, sendingPayloadOffset |-> 0, sendingSequenceNumber |-> 0,
     receivingPayload |-> <<>>, receivingSequenceNumber |-> 0,
     receivingPendingCounter |-> 0, receivingUnconfirmedFramesCounter |-> 0]

FD_reset(t) ==
    [t EXCEPT !.state = "idle",
              !.sendingPayload = <<>>, !.sendingPayloadOffset = 0,
              !.sendingSequenceNumber = 0,
              !.receivingPayload = <<>>, !.receivingSequenceNumber = 0,
              !.receivingPendingCounter = 0,
              !.receivingUnconfirmedFramesCounter = 0]

\* a plausible slip: every frame is stretched to the maximum width
dynamicFrameWidthFor_maximum(t, requiredBytes) == t.maxFrameWidth

dynamicFrameWidthFor(t, requiredBytes) ==
    Min(nextValidFDFrameWidth(requiredBytes, t.mode = "extended"), t.maxFrameWidth)

flowControlFrame(t) ==
    Frame_flowControl(0, t.blockSize, t.rxSeparationTime, dynamicFrameWidthFor(t, 3))

singleFrame_alwaysEscape(t, bytes) ==
    LET payloadSize == Len(bytes) % 256 IN
    Resize(<<0, payloadSize>> \o bytes, dynamicFrameWidthFor(t, (payloadSize + 2) % 256))

singleFrame(t, bytes) ==
    LET payloadSize == Len(bytes) % 256 IN
    IF payloadSize <= 7
    THEN Resize(<<payloadSize>> \o bytes, dynamicFrameWidthFor(t, (payloadSize + 1) % 256))
    ELSE Resize(<<0, payloadSize>> \o bytes, dynamicFrameWidthFor(t, (payloadSize + 2) % 256))

firstFrame(t, pduLength, bytes, payloadCount) ==
    Resize(<<(16 + (pduLength \div 256)) % 256, pduLength % 256>>
               \o SubSeq(bytes, 1, payloadCount),
           dynamicFrameWidthFor(t, (payloadCount + 2) % 256))

consecutiveFrame(t, sequenceNumber, bytes, offset, count) ==
    Resize(<<32 + (sequenceNumber % 16)>> \o SubSeq(bytes, offset + 1, offset + count),
           dynamicFrameWidthFor(t, (count + 1) % 256))

FD_writePDU(t, bytes) ==
    IF Len(bytes) > maximumTransferSize THEN [t |-> t, a |-> ActProtocolViolation]
    ELSE IF t.state # "idle" THEN [t |-> t, a |-> ActProtocolViolation]
    ELSE IF Len(bytes) <= singleFramePayloadCapacityFD(t.maxFrameWidth)
    THEN [t |-> t, a |-> ActWriteFrames(<<singleFrame(t, bytes)>>, 0)]
    ELSE LET firstPayload == Min(t.maxFrameWidth - 2, Len(bytes)) IN
         [t |-> [t EXCEPT !.state = "sending",
                          !.sendingPayload = bytes,
                          !.sendingPayloadOffset = firstPayload,
                          !.sendingSequenceNumber = 1],
          a |-> ActWriteFrames(<<firstFrame(t, Len(bytes), bytes, firstPayload)>>, 0)]

\* the for loop of TransceiverFD::parseFlowControlFrame, n iterations at most,
\* from offset on: iteration i (from 0) sends the chunk at offset
\* offset + i * (maxFrameWidth - 1); the loop ends with the iteration that
\* reaches the end of the payload, or at once if nothing remains
FD_Burst(t, n) ==
    LET chunkSize == t.maxFrameWidth - 1
        remaining == Len(t.sendingPayload) - t.sendingPayloadOffset
        needed == (remaining + chunkSize - 1) \div chunkSize
        count == Min(n, needed)
        nextChunkSize(i) == Min(chunkSize, remaining - i * chunkSize) % 256
    IN  [frames |-> [k \in 1..count |->
                        consecutiveFrame(t, (t.sendingSequenceNumber + (k - 1)) % 16,
                                         t.sendingPayload,
                                         t.sendingPayloadOffset + (k - 1) * chunkSize,
                                         nextChunkSize(k - 1))],
         offset |-> t.sendingPayloadOffset + count * chunkSize,
         exhausted |-> count * chunkSize >= remaining,
         sn |-> (t.sendingSequenceNumber + count) % 16]

FD_parseFlowControlFrame(t, bytes) ==
    IF Len(bytes) < 3 THEN [t |-> t, a |-> ActProtocolViolation]
    ELSE IF Frame_type(bytes) # "flowControl" THEN [t |-> t, a |-> ActProtocolViolation]
    ELSE IF Frame_flowStatus(bytes) = "clearToSend"
    THEN IF t.sendingPayloadOffset > Len(t.sendingPayload)
         THEN [t |-> FD_reset(t), a |-> ActProtocolViolation]
         ELSE LET numberOfUnconfirmedFrames ==
                      IF Frame_blockSize(bytes) = 0 THEN UINT16_MAX
                      ELSE Frame_blockSize(bytes)
                  b == FD_Burst(t, numberOfUnconfirmedFrames)
                  st == Max(Frame_separationTime(bytes), t.txSeparationTime)
              IN  [t |-> IF b.exhausted THEN FD_reset(t)
                         ELSE [t EXCEPT !.sendingPayloadOffset = b.offset,
                                        !.sendingSequenceNumber = b.sn],
                   a |-> ActWriteFrames(b.frames, st)]
    ELSE IF Frame_flowStatus(bytes) = "wait" THEN [t |-> t, a |-> ActWaitForMore]
    ELSE [t |-> t, a |-> ActProtocolViolation]

FD_parseDataFrame(t, bytes) ==
    LET ty == Frame_type(bytes) IN
    IF ty = "single"
    THEN IF t.state # "idle" THEN [t |-> t, a |-> ActProtocolViolation]
         ELSE IF Len(bytes) > standardFrameWidth /\ (bytes[1] % 16 # 0 \/ Len(bytes) < 2)
         THEN [t |-> t, a |-> ActProtocolViolation]
         ELSE LET headerSize == IF Len(bytes) > standardFrameWidth THEN 2 ELSE 1
                  pduLength == IF Len(bytes) > standardFrameWidth THEN bytes[2]
                               ELSE Frame_singleLength(bytes)
              IN  IF pduLength = 0 THEN [t |-> t, a |-> ActProtocolViolation]
                  ELSE IF pduLength > Len(bytes) - headerSize
                  THEN [t |-> t, a |-> ActProtocolViolation]
                  ELSE IF pduLength > singleFramePayloadCapacityFD(Len(bytes) % 256)
                  THEN [t |-> t, a |-> ActProtocolViolation]
                  ELSE [t |-> t,
                        a |-> ActProcess(SubSeq(bytes, headerSize + 1, headerSize + pduLength))]
    ELSE IF ty = "first"
    THEN IF t.state # "idle" THEN [t |-> t, a |-> ActProtocolViolation]
         ELSE IF Len(bytes) < 3 THEN [t |-> t, a |-> ActProtocolViolation]
         ELSE LET pduLength == Frame_firstLength(bytes)
                  firstPayloadLength == Len(bytes) - 2
              IN  IF pduLength <= firstPayloadLength THEN [t |-> t, a |-> ActProtocolViolation]
                  ELSE [t |-> [t EXCEPT
                            !.receivingPayload = SubSeq(bytes, 3, Len(bytes)),
                            !.receivingPendingCounter = pduLength - firstPayloadLength,
                            !.receivingUnconfirmedFramesCounter =
                                IF t.blockSize = 0 THEN UINT16_MAX ELSE t.blockSize,
                            !.state = "receiving",
                            !.receivingSequenceNumber = 1],
                        a |-> ActWriteFrames(<<flowControlFrame(t)>>, 0)]
    ELSE IF ty = "consecutive"
    THEN IF t.state # "receiving" THEN [t |-> t, a |-> ActProtocolViolation]
         ELSE IF Len(bytes) < 2 THEN [t |-> t, a |-> ActProtocolViolation]
         ELSE IF Frame_consecutiveSequenceNumber(bytes) # t.receivingSequenceNumber
         THEN [t |-> t, a |-> ActProtocolViolation]
         ELSE LET length == Min(Len(bytes) - 1, t.receivingPendingCounter)
                  payload == t.receivingPayload \o SubSeq(bytes, 2, 1 + length)
                  pending == t.receivingPendingCounter - length
                  unconfirmed == (t.receivingUnconfirmedFramesCounter - 1) % 65536
                  t1 == [t EXCEPT
                            !.receivingSequenceNumber = (t.receivingSequenceNumber + 1) % 16,
                            !.receivingPayload = payload,
                            !.receivingPendingCounter = pending]
              IN  IF pending = 0
                  THEN [t |-> FD_reset(t1), a |-> ActProcess(payload)]
                  ELSE IF unconfirmed > 0
                  THEN [t |-> [t1 EXCEPT !.receivingUnconfirmedFramesCounter = unconfirmed],
                        a |-> ActWaitForMore]
                  ELSE [t |-> [t1 EXCEPT !.receivingUnconfirmedFramesCounter =
                                   IF t.blockSize = 0 THEN UINT16_MAX ELSE t.blockSize],
                        a |-> ActWriteFrames(<<flowControlFrame(t)>>, 0)]
    ELSE [t |-> t, a |-> ActProtocolViolation]

FD_didReceiveFrame(t, bytes) ==
    IF bytes = <<>> THEN [t |-> t, a |-> ActProtocolViolation]
    ELSE IF Len(bytes) > t.maxFrameWidth THEN [t |-> t, a |-> ActProtocolViolation]
    ELSE IF ~isValidFDFrameWidth(Len(bytes) % 256, t.mode = "extended")
    THEN [t |-> t, a |-> ActProtocolViolation]
    ELSE LET first == IF t.state = "sending" THEN FD_parseFlowControlFrame(t, bytes)
                      ELSE FD_parseDataFrame(t, bytes)
         IN  IF t.behavior = "strict" THEN first
             ELSE IF first.a.type = "protocolViolation"
                  THEN LET second == FD_parseDataFrame(FD_reset(first.t), bytes) IN
                       IF second.a.type = "protocolViolation"
                       THEN [t |-> second.t, a |-> ActWaitForMore]
                       ELSE second
                  ELSE first

\* the two transceiver classes behind one interface
IsFD(t) == "maxFrameWidth" \in DOMAIN t
Any_writePDU(t, bytes) == IF IsFD(t) THEN FD_writePDU(t, bytes) ELSE writePDU(t, bytes)
Any_didReceiveFrame(t, bytes) ==
    IF IsFD(t) THEN FD_didReceiveFrame(t, bytes) ELSE didReceiveFrame(t, bytes)
Any_width(t) == IF IsFD(t) THEN t.maxFrameWidth ELSE t.width

(***************************************************************************)
(* J2534 PDU codec (canyonero_protocol.cpp)                                *)
(***************************************************************************)
PDU_ATT == 31
PDU_HEADER_SIZE == 4
MAX_PDU_PAYLOAD == 65535

\* PDUType
ReadVoltage == 18
OpenChannelT == 48
CloseChannelT == 49
SendT == 51
SetArbitrationT == 52
Ok == 128
Pong == 144
Voltage == 146
ChannelOpened == 176
ChannelClosed == 177
Received == 178
ReceivedCompressed == 179
ErrorUnspecified == 224

MkPDU(type, payload) == [type |-> type, payload |-> payload]

\* a default-constructed PDU: type_ = PDUType::Ok, empty payload
DefaultPDU == MkPDU(Ok, <<>>)

appendUint16BE(vec, value) ==
    vec \o <<(value \div 256) % 256, value % 256>>

\* a uint32_t is kept as <<high 16 bits, low 16 bits>>: the integers of the
\* model checker are 32-bit signed
U32(n) == <<(n \div 65536) % 65536, n % 65536>>

appendUint32BE(vec, value) ==
    vec \o <<(value[1] \div 256) % 256, value[1] % 256,
             (value[2] \div 256) % 256, value[2] % 256>>

\* data points at the first of the bytes to read
readUint16BE(data) == data[1] * 256 + data[2]

readUint32BE(data) ==
    <<data[1] * 256 + data[2], data[3] * 256 + data[4]>>

\* a plausible slip: the length written low byte first
serialize_littleEndian(p) ==
    <<PDU_ATT, p.type, Len(p.payload) % 256, (Len(p.payload) \div 256) % 256>> \o p.payload

serialize(p) ==
    appendUint16BE(<<PDU_ATT, p.type>>, Len(p.payload) % 65536) \o p.payload

\* consumed: 0 need more data, -1 garbage, else the bytes of one PDU
parse(buffer) ==
    IF Len(buffer) < PDU_HEADER_SIZE THEN [consumed |-> 0, pdu |-> DefaultPDU]
    ELSE IF buffer[1] # PDU_ATT THEN [consumed |-> -1, pdu |-> DefaultPDU]
    ELSE LET length == readUint16BE(SubSeq(buffer, 3, 4))
             totalSize == PDU_HEADER_SIZE + length
         IN  IF Len(buffer) < totalSize THEN [consumed |-> 0, pdu |-> DefaultPDU]
             ELSE [consumed |-> totalSize,
                   pdu |-> MkPDU(buffer[2], SubSeq(buffer, PDU_HEADER_SIZE + 1, totalSize))]

isError_never(p) == FALSE

isError(p) == p.type >= 224 /\ p.type <= 239

(***************************************************************************)
(* Library PDU codec (libCANyonero/Protocol.cpp)                           *)
(***************************************************************************)
PDU_frame(p) ==
    <<PDU_ATT, p.type, (Len(p.payload) \div 256) % 256, Len(p.payload) % 256>>
        \o p.payload

\* PDU::PDU(const Bytes& frame); ok is the conjunction of its assertions
PDU_fromFrame(frame) ==
    LET length == IF Len(frame) >= PDU_HEADER_SIZE THEN frame[3] * 256 + frame[4] ELSE 0 IN
    [ok |-> Len(frame) >= PDU_HEADER_SIZE /\ Len(frame) = PDU_HEADER_SIZE + length,
     length |-> length,
     pdu |-> IF Len(frame) >= PDU_HEADER_SIZE
             THEN MkPDU(frame[2], SubSeq(frame, 5, Len(frame)))
             ELSE DefaultPDU]

(***************************************************************************)
(* Session: class Protocol (canyonero_protocol.cpp)                        *)
(***************************************************************************)
Arbitration(request, requestExtension, replyPattern, replyMask, replyExtension) ==
    [request |-> request, requestExtension |-> requestExtension,
     replyPattern |-> replyPattern, replyMask |-> replyMask,
     replyExtension |-> replyExtension]

Arbitration_serialize(arb) ==
    appendUint32BE(
        appendUint32BE(
            appendUint32BE(<<>>, arb.request) \o <<arb.requestExtension>>,
            arb.replyPattern),
        arb.replyMask) \o <<arb.replyExtension>>

PDU_readVoltage == MkPDU(ReadVoltage, <<>>)
PDU_closeChannel(handle) == MkPDU(CloseChannelT, <<handle>>)
PDU_setArbitration(handle, arb) ==
    MkPDU(SetArbitrationT, <<handle>> \o Arbitration_serialize(arb))

\* CANFrame without its local timestamp
CANFrame(channel, id, extension, data) ==
    [channel |-> channel, id |-> id, extension |-> extension, data |-> data]

receivedFrame(p) ==
    IF p.type # Received \/ Len(p.payload) < 6 THEN CANFrame(0, U32(0), 0, <<>>)
    ELSE CANFrame(p.payload[1], readUint32BE(SubSeq(p.payload, 2, 5)), p.payload[6],
                  SubSeq(p.payload, 7, Len(p.payload)))

channelHandle(p) == IF p.payload = <<>> THEN 0 ELSE p.payload[1]

voltageMillivolts(p) == IF Len(p.payload) < 2 THEN 0 ELSE readUint16BE(p.payload)

\* std::optional: <<>> is nullopt, <<v>> holds v
NewSession(asyncMode) ==
    [receiveBuffer |-> <<>>, frameQueue |-> <<>>, expectedResponse |-> <<>>,
     capturedResponse |-> <<>>, asyncMode |-> asyncMode]

\* the while loop of processReceivedData; parsed and pushed record what the
\* loop parsed and what it pushed to frameQueue_
RECURSIVE Scan(_)
Scan(r) ==
    IF r.s.receiveBuffer = <<>> THEN r
    ELSE LET buf == r.s.receiveBuffer
             p == parse(buf)
         IN  IF p.consumed < 0
             THEN Scan([r EXCEPT !.s.receiveBuffer = Tail(buf)])
             ELSE IF p.consumed = 0 THEN r
             ELSE LET rest == SubSeq(buf, p.consumed + 1, Len(buf))
                      r1 == [r EXCEPT !.s.receiveBuffer = rest,
                                      !.parsed = Append(r.parsed, p.pdu)]
                  IN  IF p.pdu.type = Received \/ p.pdu.type = ReceivedCompressed
                      THEN Scan([r1 EXCEPT
                                  !.s.frameQueue = Append(r.s.frameQueue, receivedFrame(p.pdu)),
                                  !.pushed = Append(r.pushed, receivedFrame(p.pdu))])
                      ELSE IF r.s.expectedResponse # <<>>
                              /\ (p.pdu.type = r.s.expectedResponse[1] \/ isError(p.pdu))
                      THEN Scan([r1 EXCEPT !.s.capturedResponse = <<p.pdu>>])
                      ELSE Scan(r1)

processReceivedData(s, data) ==
    Scan([s |-> [s EXCEPT !.receiveBuffer = s.receiveBuffer \o data],
          parsed |-> <<>>, pushed |-> <<>>])

\* if (!data.empty()) processReceivedData(data);
processIfData(s, data) ==
    IF data # <<>> THEN processReceivedData(s, data)
    ELSE [s |-> s, parsed |-> <<>>, pushed |-> <<>>]

\* what is left in capturedResponse_ after return std::move(capturedResponse_):
\* the optional stays engaged, the payload vector has been moved out
MovedFrom(p) == MkPDU(p.type, <<>>)

(***************************************************************************)
(* ISO-TP over a lossless CAN link                                         *)
(***************************************************************************)
\* payload of n bytes whose content makes reordering or loss visible
Pattern(n) == [i \in 1..n |-> (7 * i + 3) % 256]

Lengths == (0..MaxLen) \cup {WrapLen, maximumTransferSize}

\* the transceivers before any use, for the specifications of the other parts
IsotpPinned ==
    /\ snd = NewTransceiver("defensive", 8, 0, 0, 0)
    /\ rcv = NewTransceiver("defensive", 8, 0, 0, 0)
    /\ pdu = <<>>
    /\ c2r = <<>>
    /\ c2s = <<>>
    /\ phase = "start"
    /\ delivered = <<>>
    /\ sndAct = "none"
    /\ rcvAct = "none"

NoParse == [consumed |-> 0, pdu |-> DefaultPDU]

CodecPinned ==
    /\ cdPdu = DefaultPDU
    /\ cdWire = <<>>
    /\ cdOut = NoParse
    /\ cdStage = "new"

Threads == {0, 1, 2}
Callers == {1, 2}

NoResult == [status |-> "none", pdu |-> DefaultPDU]

SessPinned ==
    /\ sess = NewSession(FALSE)
    /\ inbound = <<>>
    /\ wire = <<>>
    /\ answered = 0
    /\ reply = [c \in Callers |-> <<>>]
    /\ peerStream = <<>>
    /\ streamPdus = <<>>
    /\ splitReads = FALSE
    /\ pc = [t \in Threads |-> "off"]
    /\ chunk = [t \in Threads |-> <<>>]
    /\ start = [c \in Callers |-> 0]
    /\ result = [c \in Callers |-> NoResult]
    /\ now = 0
    /\ rxLog = <<>>
    /\ appLog = <<>>
    /\ parsedLog = <<>>
    /\ fifoLog = <<>>
    /\ polled = <<>>

STATUS_NOERROR == 0

\* holders of the manager's mutex_: nobody, the application thread, or the
\* polling thread of device d (d itself)
FREE == 0
API == -1

NoCall ==
    [op |-> "none", status |-> STATUS_NOERROR, id |-> 0, arg |-> 0, reply |-> "none",
     timeout |-> 0, msgs |-> <<>>, numMsgs |-> 0, wire |-> <<>>,
     fail |-> [at |-> 0, kind |-> "none"], before |-> <<>>, writes |-> 0,
     adapterArb |-> <<>>]

\* the second caller thread is in no call; inside readMsgs the record holds the
\* arguments, after it the status and *numMsgs
NoReader ==
    [pc |-> "idle", channel |-> 0, requested |-> 0, timeout |-> 0,
     status |-> STATUS_NOERROR, numMsgs |-> 0, freed |-> FALSE]

DmPinned ==
    /\ devices = <<>>
    /\ channelToDevice = <<>>
    /\ nextDeviceId = 1
    /\ mutexOwner = FREE
    /\ terminated = FALSE
    /\ apiPc = "idle"
    /\ apiArg = 0
    /\ pollPc = [d \in 1..MaxIds |-> "none"]
    /\ pollFrames = [d \in 1..MaxIds |-> <<>>]
    /\ rxLeft = 0
    /\ reader = NoReader
    /\ dmCall = NoCall

InitISOTP ==
    /\ \E behavior \in {"defensive", "strict"}, width \in {8, 7}, bs \in 0..MaxBlockSize :
          /\ snd = NewTransceiver(behavior, width, bs, 0, 0)
          /\ rcv = NewTransceiver(behavior, width, bs, 0, 0)
    /\ pdu \in {Pattern(n) : n \in Lengths}
    /\ c2r = <<>>
    /\ c2s = <<>>
    /\ phase = "start"
    /\ delivered = <<>>
    /\ sndAct = "none"
    /\ rcvAct = "none"
    /\ CodecPinned
    /\ SessPinned
    /\ DmPinned

\* the application hands the payload to the sender
SenderWritePDU ==
    /\ phase = "start"
    /\ LET r == Any_writePDU(snd, pdu) IN
          /\ snd' = r.t
          /\ sndAct' = r.a.type
          /\ c2r' = c2r \o r.a.frames
    /\ phase' = "running"
    /\ UNCHANGED <<rcv, c2s, pdu, delivered, rcvAct, notIsotp>>

\* the receiver is fed the next frame of the sender
ReceiverDidReceiveFrame ==
    /\ c2r # <<>>
    /\ LET r == Any_didReceiveFrame(rcv, Head(c2r)) IN
          /\ rcv' = r.t
          /\ rcvAct' = r.a.type
          /\ c2s' = c2s \o r.a.frames
          /\ delivered' = IF r.a.type = "process" THEN Append(delivered, r.a.data)
                          ELSE delivered
    /\ c2r' = Tail(c2r)
    /\ UNCHANGED <<snd, pdu, phase, sndAct, notIsotp>>

\* the sender is fed the next FlowControl of the receiver
SenderDidReceiveFrame ==
    /\ c2s # <<>>
    /\ LET r == Any_didReceiveFrame(snd, Head(c2s)) IN
          /\ snd' = r.t
          /\ sndAct' = r.a.type
          /\ c2r' = c2r \o r.a.frames
    /\ c2s' = Tail(c2s)
    /\ UNCHANGED <<rcv, pdu, phase, delivered, rcvAct, notIsotp>>

NextISOTP ==
    \/ SenderWritePDU
    \/ ReceiverDidReceiveFrame
    \/ SenderDidReceiveFrame

SpecISOTP == InitISOTP /\ [][NextISOTP]_vars

\* ---- the same loop between two FD transceivers of one configuration
FDLengths == (1..MaxFDLen) \cup {maximumTransferSize}

InitFD ==
    /\ \E behavior \in {"defensive", "strict"}, mode \in {"standard", "extended"},
          frameWidth \in 0..255, bs \in {0, 1}, n \in FDLengths :
          /\ n = maximumTransferSize => bs = 0
          /\ snd = NewTransceiverFD(behavior, mode, bs, 0, 0, frameWidth)
          /\ rcv = NewTransceiverFD(behavior, mode, bs, 0, 0, frameWidth)
          /\ pdu = Pattern(n)
    /\ c2r = <<>>
    /\ c2s = <<>>
    /\ phase = "start"
    /\ delivered = <<>>
    /\ sndAct = "none"
    /\ rcvAct = "none"
    /\ CodecPinned
    /\ SessPinned
    /\ DmPinned

SpecFD == InitFD /\ [][NextISOTP]_vars

(***************************************************************************)
(* One sending transceiver, classic or FD, driven by FlowControl frames    *)
(***************************************************************************)
\* c2r keeps every frame the sender has emitted, c2s the frame it was fed last

\* the bytes 00 01 02 ...
Counting(n) == [i \in 1..n |-> (i - 1) % 256]

SendTransceivers ==
    {NewTransceiver(b, w, 0, 0, 0) : b \in {"defensive", "strict"}, w \in {8, 7}}
        \cup {NewTransceiverFD(b, m[1], 0, 0, 0, m[2]) :
                 b \in {"defensive", "strict"},
                 m \in {<<"standard", 0>>, <<"standard", 12>>, <<"extended", 0>>}}

SendPayloads(t) ==
    IF IsFD(t)
    THEN {Pattern(n) : n \in (0..(maximumFDStandardFrameWidth + 1)) \cup {WrapLen}}
    ELSE {Pattern(n) : n \in (0..MaxLen) \cup {WrapLen}} \cup {Counting(16)}
             \cup (IF t.behavior = "strict" THEN {Pattern(maximumTransferSize)} ELSE {})

\* FlowControl frames as a receiver of the same kind builds them
FlowControls(t) ==
    LET width == IF IsFD(t) THEN dynamicFrameWidthFor(t, 3) ELSE t.width IN
    {Frame_flowControl(0, bs, 0, width) : bs \in 0..MaxBlockSize}
        \cup {Frame_flowControl(1, 0, 0, width)}

InitSend ==
    /\ snd \in SendTransceivers
    /\ pdu \in SendPayloads(snd)
    /\ rcv = NewTransceiver("defensive", 8, 0, 0, 0)
    /\ c2r = <<>>
    /\ c2s = <<>>
    /\ phase = "start"
    /\ delivered = <<>>
    /\ sndAct = "none"
    /\ rcvAct = "none"
    /\ CodecPinned
    /\ SessPinned
    /\ DmPinned

SendWritePDU ==
    /\ phase = "start"
    /\ LET r == Any_writePDU(snd, pdu) IN
          /\ snd' = r.t
          /\ sndAct' = r.a.type
          /\ c2r' = c2r \o r.a.frames
    /\ phase' = "running"
    /\ UNCHANGED <<rcv, c2s, pdu, delivered, rcvAct, notIsotp>>

SendDidReceiveFrame ==
    /\ phase = "running"
    /\ \E frame \in FlowControls(snd) :
          LET r == Any_didReceiveFrame(snd, frame) IN
             /\ snd' = r.t
             /\ sndAct' = r.a.type
             /\ c2r' = c2r \o r.a.frames
             /\ c2s' = <<frame>>
    /\ UNCHANGED <<rcv, pdu, phase, delivered, rcvAct, notIsotp>>

NextSend ==
    \/ SendWritePDU
    \/ SendDidReceiveFrame

SpecSend == InitSend /\ [][NextSend]_vars

(***************************************************************************)
(* One transceiver, classic or FD, fed arbitrary frames                    *)
(***************************************************************************)
\* rcv is the transceiver, c2r keeps every frame it was fed, c2s every frame
\* it returned, delivered the data of every Process

FeedTransceivers ==
    {NewTransceiver(b, w, 0, 0, 0) : b \in {"defensive", "strict"}, w \in {8, 7}}
        \cup {NewTransceiverFD(b, m, 0, 0, 0, 0) :
                 b \in {"defensive", "strict"}, m \in {"standard", "extended"}}

\* the width of a classic frame on the bus the transceiver is attached to
ClassicWidth(t) ==
    IF IsFD(t) THEN (IF t.mode = "extended" THEN extendedFrameWidth ELSE standardFrameWidth)
    ELSE t.width

\* two transfers that share no byte, each a First and one Consecutive frame
TransferA(w) == [i \in 1..(2 * w - 3) |-> i]
TransferB(w) == [i \in 1..(w + 1) |-> 200 + i]
FramesOfTransfer(d, w) ==
    <<Frame_first(Len(d), d, w),
      Frame_consecutive(1, SubSeq(d, w - 1, Len(d)), Len(d) - (w - 2), w)>>

\* a Single in the FD escape form, stretched to n bytes
EscapeSingle(n) == Resize(<<0, 3, 1, 2, 3>>, n)

FeedFrames(t) ==
    LET w == ClassicWidth(t) IN
    {<<>>, Frame_single(<<1, 2, 3>>, w), Frame_flowControl(0, 0, 0, w),
     FramesOfTransfer(TransferA(w), w)[1], FramesOfTransfer(TransferA(w), w)[2]}
        \cup (IF IsFD(t)
              THEN {EscapeSingle(n) : n \in {9, 11, 12, t.maxFrameWidth + 1}}
              ELSE {Resize(<<3, 1, 2, 3>>, w + 1), <<16, 20, 1, 2>>,
                    FramesOfTransfer(TransferB(w), w)[1],
                    FramesOfTransfer(TransferB(w), w)[2]})

InitFeed ==
    /\ rcv \in FeedTransceivers
    /\ pdu = Pattern(20)
    /\ snd = NewTransceiver("defensive", 8, 0, 0, 0)
    /\ c2r = <<>>
    /\ c2s = <<>>
    /\ phase = "start"
    /\ delivered = <<>>
    /\ sndAct = "none"
    /\ rcvAct = "none"
    /\ CodecPinned
    /\ SessPinned
    /\ DmPinned

\* the application starts a transfer of its own
FeedWritePDU ==
    /\ phase = "start"
    /\ LET r == Any_writePDU(rcv, pdu) IN
          /\ rcv' = r.t
          /\ sndAct' = r.a.type
          /\ c2s' = c2s \o r.a.frames
    /\ phase' = "running"
    /\ UNCHANGED <<snd, c2r, pdu, delivered, rcvAct, notIsotp>>

FeedDidReceiveFrame ==
    /\ Len(c2r) < MaxFeeds
    /\ \E frame \in FeedFrames(rcv) :
          LET r == Any_didReceiveFrame(rcv, frame) IN
             /\ rcv' = r.t
             /\ rcvAct' = r.a.type
             /\ c2s' = c2s \o r.a.frames
             /\ c2r' = Append(c2r, frame)
             /\ delivered' = IF r.a.type = "process" THEN Append(delivered, r.a.data)
                             ELSE delivered
    /\ UNCHANGED <<snd, pdu, phase, sndAct, notIsotp>>

NextFeed ==
    \/ FeedWritePDU
    \/ FeedDidReceiveFrame

SpecFeed == InitFeed /\ [][NextFeed]_vars

(***************************************************************************)
(* One strict transceiver, written to and fed frames in any order          *)
(***************************************************************************)
\* rcv is the transceiver, pdu the payload of the last writePDU, c2r keeps
\* every frame it was fed, c2s the frames the last call returned, delivered
\* the data of every Process, phase the last call ("wrote" or "fed")

StrictTransceivers ==
    {NewTransceiver("strict", 8, 0, 0, 0), NewTransceiver("strict", 7, MaxBlockSize, 0, 0)}

StrictPayloads ==
    {Pattern(3), Pattern(20), Pattern(maximumTransferSize + 1)}

\* a Single, a transfer of a First and one Consecutive, the Consecutive with
\* the wrong sequence number, and FlowControls of every status
StrictFrames(t) ==
    LET w == t.width IN
    {Frame_single(<<1, 2, 3>>, w),
     FramesOfTransfer(TransferA(w), w)[1],
     FramesOfTransfer(TransferA(w), w)[2],
     Frame_consecutive(2, SubSeq(TransferA(w), w - 1, 2 * w - 3), w - 1, w),
     Frame_flowControl(0, 0, 0, w), Frame_flowControl(0, 1, 0, w),
     Frame_flowControl(1, 0, 0, w), Frame_flowControl(2, 0, 0, w),
     Frame_flowControl(3, 0, 0, w)}

InitStrict ==
    /\ rcv \in StrictTransceivers
    /\ pdu = <<>>
    /\ snd = NewTransceiver("defensive", 8, 0, 0, 0)
    /\ c2r = <<>>
    /\ c2s = <<>>
    /\ phase = "start"
    /\ delivered = <<>>
    /\ sndAct = "none"
    /\ rcvAct = "none"
    /\ CodecPinned
    /\ SessPinned
    /\ DmPinned

StrictWritePDU ==
    /\ \E bytes \in StrictPayloads :
          LET r == writePDU(rcv, bytes) IN
             /\ rcv' = r.t
             /\ sndAct' = r.a.type
             /\ c2s' = r.a.frames
             /\ pdu' = bytes
    /\ phase' = "wrote"
    /\ UNCHANGED <<snd, c2r, delivered, rcvAct, notIsotp>>

StrictDidReceiveFrame ==
    /\ Len(c2r) < MaxStrictFeeds
    /\ \E frame \in StrictFrames(rcv) :
          LET r == didReceiveFrame(rcv, frame) IN
             /\ rcv' = r.t
             /\ rcvAct' = r.a.type
             /\ c2s' = r.a.frames
             /\ c2r' = Append(c2r, frame)
             /\ delivered' = IF r.a.type = "process" THEN Append(delivered, r.a.data)
                             ELSE delivered
    /\ phase' = "fed"
    /\ UNCHANGED <<snd, pdu, sndAct, notIsotp>>

NextStrict ==
    \/ StrictWritePDU
    \/ StrictDidReceiveFrame

SpecStrict == InitStrict /\ [][NextStrict]_vars

(***************************************************************************)
(* One classic sender, answered with FlowControls of every separation time *)
(***************************************************************************)
\* snd is the sender, c2s the FlowControl it was fed last, c2r the frames the
\* last call returned; sndAct holds type and separationTime of the last Action

TxSeparationTimes == {0, 500, 5000}

StMinTransceivers ==
    {NewTransceiver(b, 8, 0, 0, tx) : b \in {"defensive", "strict"}, tx \in TxSeparationTimes}

InitStMin ==
    /\ snd \in StMinTransceivers
    /\ pdu = Pattern(20)
    /\ rcv = NewTransceiver("defensive", 8, 0, 0, 0)
    /\ c2r = <<>>
    /\ c2s = <<>>
    /\ phase = "start"
    /\ delivered = <<>>
    /\ sndAct = [type |-> "none", separationTime |-> 0]
    /\ rcvAct = "none"
    /\ CodecPinned
    /\ SessPinned
    /\ DmPinned

StMinWritePDU ==
    /\ phase = "start"
    /\ LET r == writePDU(snd, pdu) IN
          /\ snd' = r.t
          /\ sndAct' = [type |-> r.a.type, separationTime |-> r.a.separationTime]
          /\ c2r' = r.a.frames
    /\ phase' = "running"
    /\ UNCHANGED <<rcv, c2s, pdu, delivered, rcvAct, notIsotp>>

\* the sender is answered while it waits for a FlowControl
StMinDidReceiveFrame ==
    /\ phase = "running"
    /\ snd.state = "sending"
    /\ \E stMin \in 0..255 :
          LET frame == Frame_flowControl(0, 1, stMin, snd.width)
              r == didReceiveFrame(snd, frame)
          IN  /\ snd' = r.t
              /\ sndAct' = [type |-> r.a.type, separationTime |-> r.a.separationTime]
              /\ c2r' = r.a.frames
              /\ c2s' = <<frame>>
    /\ UNCHANGED <<rcv, pdu, phase, delivered, rcvAct, notIsotp>>

NextStMin ==
    \/ StMinWritePDU
    \/ StMinDidReceiveFrame

SpecStMin == InitStMin /\ [][NextStMin]_vars

(***************************************************************************)
(* One classic transceiver under every call, in any order                  *)
(***************************************************************************)
\* rcv is the transceiver, phase its last call, pdu the payload or c2r the
\* frame the call was given, c2s the frames and delivered the data it returned

StateTransceivers ==
    {NewTransceiver(b, w, bs, 0, 0) :
        b \in {"defensive", "strict"}, w \in {8, 7}, bs \in 0..MaxBlockSize}

\* nothing, less than a frame, one byte more than a Single holds, enough for
\* the sequence number to wrap, and one byte too many
StatePayloads(t) ==
    {Pattern(n) : n \in {0, t.width - 1, t.width, WrapLen, maximumTransferSize + 1}}

StateFrames(t) ==
    {<<>>, <<33>>, Frame_single(<<1, 2, 3>>, t.width), Resize(<<3, 1, 2, 3>>, t.width + 1),
     Frame_flowControl(1, 0, 0, t.width), Frame_flowControl(2, 0, 0, t.width)}
        \cup {Frame_flowControl(0, bs, 0, t.width) : bs \in 0..MaxBlockSize}
        \cup {Frame_first(n, Pattern(n), t.width) : n \in {7, 8, WrapLen}}
        \cup {Frame_consecutive(sn, Pattern(t.width), t.width - 1, t.width) : sn \in 0..15}

InitState ==
    /\ rcv \in StateTransceivers
    /\ pdu = <<>>
    /\ snd = NewTransceiver("defensive", 8, 0, 0, 0)
    /\ c2r = <<>>
    /\ c2s = <<>>
    /\ phase = "start"
    /\ delivered = <<>>
    /\ sndAct = "none"
    /\ rcvAct = "none"
    /\ CodecPinned
    /\ SessPinned
    /\ DmPinned

StateWritePDU ==
    \E bytes \in StatePayloads(rcv) :
        LET r == writePDU(rcv, bytes) IN
           /\ rcv' = r.t
           /\ pdu' = bytes
           /\ c2r' = <<>>
           /\ sndAct' = r.a.type
           /\ rcvAct' = "none"
           /\ c2s' = r.a.frames
           /\ delivered' = <<>>
           /\ phase' = "writePDU"
           /\ UNCHANGED <<snd, notIsotp>>

StateDidReceiveFrame ==
    \E frame \in StateFrames(rcv) :
        LET r == didReceiveFrame(rcv, frame) IN
           /\ rcv' = r.t
           /\ pdu' = <<>>
           /\ sndAct' = "none"
           /\ rcvAct' = r.a.type
           /\ c2s' = r.a.frames
           /\ c2r' = <<frame>>
           /\ delivered' = IF r.a.type = "process" THEN <<r.a.data>> ELSE <<>>
           /\ phase' = "didReceiveFrame"
           /\ UNCHANGED <<snd, notIsotp>>

StateReset ==
    /\ rcv' = reset(rcv)
    /\ pdu' = <<>>
    /\ c2r' = <<>>
    /\ c2s' = <<>>
    /\ delivered' = <<>>
    /\ sndAct' = "none"
    /\ rcvAct' = "none"
    /\ phase' = "reset"
    /\ UNCHANGED <<snd, notIsotp>>

NextState ==
    \/ StateWritePDU
    \/ StateDidReceiveFrame
    \/ StateReset

SpecState == InitState /\ [][NextState]_vars

(***************************************************************************)
(* A receiver with a configured RX separation time                         *)
(***************************************************************************)
\* microseconds: none, the smallest and the largest sub-millisecond value,
\* one and two milliseconds, and the largest whole millisecond of a uint16_t
RxSeparationTimes == {0, 100, 900, 1000, 2000, 65000}

InitRxSt ==
    /\ \E behavior \in {"defensive", "strict"}, bs \in 0..MaxBlockSize,
          rx \in RxSeparationTimes :
          \/ \E width \in {8, 7} :
                /\ snd = NewTransceiver(behavior, width, bs, rx, 0)
                /\ rcv = NewTransceiver(behavior, width, bs, rx, 0)
          \/ \E mode \in {"standard", "extended"} :
                /\ snd = NewTransceiverFD(behavior, mode, bs, rx, 0, 0)
                /\ rcv = NewTransceiverFD(behavior, mode, bs, rx, 0, 0)
    /\ pdu = Pattern(WrapLen)
    /\ c2r = <<>>
    /\ c2s = <<>>
    /\ phase = "start"
    /\ delivered = <<>>
    /\ sndAct = "none"
    /\ rcvAct = "none"
    /\ CodecPinned
    /\ SessPinned
    /\ DmPinned

SpecRxSt == InitRxSt /\ [][NextISOTP]_vars

(***************************************************************************)
(* K-Line transceiver (KLine.hpp; KWP.hpp holds the same code for the one  *)
(* mode kwp)                                                               *)
(***************************************************************************)
KLine_headerSize == 3

RECURSIVE KLine_checksum(_)
KLine_checksum(bytes) ==
    IF bytes = <<>> THEN 0
    ELSE (KLine_checksum(SubSeq(bytes, 1, Len(bytes) - 1)) + bytes[Len(bytes)]) % 256

KLine_checksumValid(bytes) ==
    IF Len(bytes) < 4 THEN FALSE
    ELSE KLine_checksum(SubSeq(bytes, 1, Len(bytes) - 1)) = bytes[Len(bytes)]

KLine_payloadLength(bytes, mode) ==
    IF mode = "kwp"
    THEN (IF bytes = <<>> THEN 0 ELSE bytes[1] % 16)
    ELSE IF Len(bytes) <= KLine_headerSize THEN 0
    ELSE Len(bytes) - KLine_headerSize - 1

KLine_expectedSize(bytes, mode) ==
    IF mode = "kwp" THEN KLine_headerSize + KLine_payloadLength(bytes, mode) + 1
    ELSE KLine_headerSize + 1

KLine_sizeValid(bytes, mode) ==
    IF mode = "kwp" THEN Len(bytes) = KLine_expectedSize(bytes, mode)
    ELSE Len(bytes) >= KLine_expectedSize(bytes, mode)

KLine_target(bytes, mode) ==
    IF mode = "kwp" THEN (IF Len(bytes) >= 2 THEN bytes[2] ELSE 0)
    ELSE IF bytes # <<>> THEN bytes[1] ELSE 0

KLine_source(bytes, mode) ==
    IF mode = "kwp" THEN (IF Len(bytes) >= 3 THEN bytes[3] ELSE 0)
    ELSE IF Len(bytes) >= 2 THEN bytes[2] ELSE 0

\* the bytes payload() points at, as far as feed() reads them; <<>> stands for
\* the null pointer as well
KLine_payload(bytes, mode) ==
    IF Len(bytes) > KLine_headerSize
    THEN SubSeq(bytes, KLine_headerSize + 1,
                Min(Len(bytes), KLine_headerSize + KLine_payloadLength(bytes, mode)))
    ELSE <<>>

KLine_Transceiver(expectedTarget, expectedSource, expectedLength, mode) ==
    [expectedTarget |-> expectedTarget, expectedSource |-> expectedSource,
     expectedLength |-> expectedLength, mode |-> mode,
     state |-> "idle", baseService |-> 0, basePid |-> 0, haveBase |-> FALSE,
     firstFrameHadPotentialSeq |-> FALSE, sequenceMode |-> FALSE,
     expectedSeq |-> 0, buffer |-> <<>>]

KLine_reset(t) ==
    [t EXCEPT !.state = "idle", !.baseService = 0, !.basePid = 0, !.haveBase = FALSE,
              !.firstFrameHadPotentialSeq = FALSE, !.sequenceMode = FALSE,
              !.expectedSeq = 0, !.buffer = <<>>]

KLine_appendPayload_whole(buffer, payload, startIndex) == buffer \o payload

KLine_appendPayload(buffer, payload, startIndex) ==
    IF startIndex >= Len(payload) THEN buffer
    ELSE buffer \o SubSeq(payload, startIndex + 1, Len(payload))

KLine_finalizeInternal(t) ==
    [t |-> KLine_reset(t), a |-> [type |-> "process", data |-> t.buffer]]

KLine_violation_keepsState(t) ==
    [t |-> t, a |-> [type |-> "protocolViolation", data |-> <<>>]]

KLine_violation(t) ==
    [t |-> KLine_reset(t), a |-> [type |-> "protocolViolation", data |-> <<>>]]

KLine_waitForMore(t) == [t |-> t, a |-> [type |-> "waitForMore", data |-> <<>>]]

KLine_deliverIfComplete_late(t) ==
    IF t.expectedLength > 0 /\ Len(t.buffer) > t.expectedLength
    THEN KLine_finalizeInternal(t)
    ELSE KLine_waitForMore(t)

\* the end of feed(): a transfer of known length is delivered when it is full
KLine_deliverIfComplete(t) ==
    IF t.expectedLength > 0 /\ Len(t.buffer) >= t.expectedLength
    THEN KLine_finalizeInternal(t)
    ELSE KLine_waitForMore(t)

KLine_feed(t, frameBytes) ==
    LET mode == t.mode
        payloadLen == KLine_payloadLength(frameBytes, mode)
        payload == KLine_payload(frameBytes, mode)
        receiving(buffer) == [t EXCEPT !.buffer = buffer, !.state = "receiving"]
    IN
    IF frameBytes = <<>> THEN KLine_violation(t)
    ELSE IF ~KLine_sizeValid(frameBytes, mode) THEN KLine_violation(t)
    ELSE IF ~KLine_checksumValid(frameBytes) THEN KLine_violation(t)
    ELSE IF t.expectedTarget # 0 /\ KLine_target(frameBytes, mode) # t.expectedTarget
         THEN KLine_violation(t)
    ELSE IF t.expectedSource # 0 /\ KLine_source(frameBytes, mode) # t.expectedSource
         THEN KLine_violation(t)
    ELSE IF Len(frameBytes) <= KLine_headerSize /\ payloadLen > 0 THEN KLine_violation(t)
    ELSE IF mode = "iso9141"
         THEN KLine_deliverIfComplete(receiving(KLine_appendPayload(t.buffer, payload, 0)))
    ELSE IF ~t.haveBase /\ payloadLen >= 2
         THEN KLine_deliverIfComplete(
                  [t EXCEPT !.baseService = payload[1],
                            !.basePid = payload[2],
                            !.haveBase = TRUE,
                            !.firstFrameHadPotentialSeq = payloadLen >= 3 /\ payload[3] = 1,
                            !.buffer = KLine_appendPayload(
                                           t.buffer \o <<payload[1], payload[2]>>, payload, 2),
                            !.state = "receiving"])
    ELSE IF t.haveBase
         THEN IF payloadLen >= 2 /\ (payload[1] # t.baseService \/ payload[2] # t.basePid)
              THEN KLine_violation(t)
              ELSE IF /\ ~t.sequenceMode
                      /\ t.firstFrameHadPotentialSeq
                      /\ payloadLen >= 3
                      /\ payload[3] = 2
                   THEN LET erased == IF Len(t.buffer) > 2 /\ t.buffer[3] = 1
                                      THEN SubSeq(t.buffer, 1, 2)
                                               \o SubSeq(t.buffer, 4, Len(t.buffer))
                                      ELSE t.buffer
                        IN  KLine_deliverIfComplete(
                                [t EXCEPT !.buffer = KLine_appendPayload(erased, payload, 3),
                                          !.sequenceMode = TRUE,
                                          !.expectedSeq = 3,
                                          !.state = "receiving"])
                   ELSE IF t.sequenceMode
                        THEN IF payloadLen >= 3
                             THEN IF payload[3] # t.expectedSeq THEN KLine_violation(t)
                                  ELSE KLine_deliverIfComplete(
                                           [t EXCEPT !.expectedSeq = (payload[3] + 1) % 256,
                                                     !.buffer = KLine_appendPayload(
                                                                    t.buffer, payload, 3),
                                                     !.state = "receiving"])
                             ELSE KLine_deliverIfComplete(
                                      receiving(KLine_appendPayload(t.buffer, payload, 2)))
                        ELSE KLine_deliverIfComplete(
                                 receiving(KLine_appendPayload(t.buffer, payload, 2)))
    ELSE KLine_deliverIfComplete(receiving(KLine_appendPayload(t.buffer, payload, 0)))

KLine_finalize(t) ==
    IF t.buffer = <<>> THEN KLine_waitForMore(t) ELSE KLine_finalizeInternal(t)

\* a | b on bytes
BitOr8(a, b) ==
    LET bit(x, i) == (x \div (2 ^ i)) % 2
        weigh(i) == (2 ^ i) * Max(bit(a, i), bit(b, i))
    IN  weigh(0) + weigh(1) + weigh(2) + weigh(3) + weigh(4) + weigh(5) + weigh(6) + weigh(7)

makeKwpFrame(target, source, payload, formatPrefix) ==
    LET fmt == BitOr8(formatPrefix, Len(payload) % 16)
        frame == <<fmt, target, source>> \o payload
    IN  Append(frame, KLine_checksum(frame))

\* ---- the transceiver fed frames, finalize() called in between
\* rcv is the K-Line transceiver, c2r keeps every frame it was fed, c2s the
\* frames fed since the last Process or ProtocolViolation, delivered the data
\* of every Process

KLineTransceivers ==
    {KLine_Transceiver(0, 0, 0, "kwp"), KLine_Transceiver(241, 16, 0, "kwp"),
     KLine_Transceiver(0, 0, 7, "kwp"), KLine_Transceiver(0, 0, 0, "iso9141"),
     KLine_Transceiver(0, 0, 6, "iso9141")}

\* a frame whose checksum byte is off by one
BadChecksum(frame) == [frame EXCEPT ![Len(frame)] = (@ + 1) % 256]

KwpPayloads ==
    {<<97, 5, 1, 161, 162, 163>>, <<97, 5, 2, 177, 178>>, <<97, 5, 3, 193>>,
     <<97, 5, 1, 209, 210>>, <<97, 5, 7, 225>>, <<97, 6, 241>>, <<97, 5>>}

KLineFrames ==
    {makeKwpFrame(241, 16, p, 128) : p \in KwpPayloads}
        \cup {BadChecksum(makeKwpFrame(241, 16, <<97, 5, 2, 177, 178>>, 128)),
              <<128, 241, 16>>, <<>>}

InitKLine ==
    /\ rcv \in KLineTransceivers
    /\ snd = NewTransceiver("defensive", 8, 0, 0, 0)
    /\ pdu = <<>>
    /\ c2r = <<>>
    /\ c2s = <<>>
    /\ phase = "start"
    /\ delivered = <<>>
    /\ sndAct = "none"
    /\ rcvAct = "none"
    /\ CodecPinned
    /\ SessPinned
    /\ DmPinned

KLineFeed ==
    /\ Len(c2r) < MaxKLineFeeds
    /\ \E frame \in KLineFrames :
          LET r == KLine_feed(rcv, frame) IN
             /\ rcv' = r.t
             /\ rcvAct' = r.a.type
             /\ c2r' = Append(c2r, frame)
             /\ c2s' = IF r.a.type = "waitForMore" THEN Append(c2s, frame) ELSE <<>>
             /\ delivered' = IF r.a.type = "process" THEN Append(delivered, r.a.data)
                             ELSE delivered
    /\ UNCHANGED <<snd, pdu, phase, sndAct, notIsotp>>

KLineFinalize ==
    /\ LET r == KLine_finalize(rcv) IN
          /\ rcv' = r.t
          /\ rcvAct' = r.a.type
          /\ c2s' = IF r.a.type = "waitForMore" THEN c2s ELSE <<>>
          /\ delivered' = IF r.a.type = "process" THEN Append(delivered, r.a.data)
                          ELSE delivered
    /\ UNCHANGED <<snd, c2r, pdu, phase, sndAct, notIsotp>>

NextKLine ==
    \/ KLineFeed
    \/ KLineFinalize

SpecKLine == InitKLine /\ [][NextKLine]_vars

(***************************************************************************)
(* PDU codec round trip                                                    *)
(***************************************************************************)
PayloadBytes == {0, 31, 66}

RECURSIVE SeqsUpTo(_, _)
SeqsUpTo(S, n) ==
    IF n = 0 THEN {<<>>}
    ELSE LET shorter == SeqsUpTo(S, n - 1) IN
         shorter \cup {Append(q, x) : q \in {r \in shorter : Len(r) = n - 1}, x \in S}

\* lengths whose 16-bit field has a non-zero high byte, up to the maximum
LongPayloadLens == {255, 256, 513, MAX_PDU_PAYLOAD}

CodecInputs ==
    {MkPDU(t, p) : t \in 0..255, p \in SeqsUpTo(PayloadBytes, MaxPayloadLen)}
        \cup {MkPDU(t, Pattern(n)) : t \in {Ok, Received}, n \in LongPayloadLens}

InitCodec ==
    /\ cdPdu \in CodecInputs
    /\ cdWire = <<>>
    /\ cdOut = NoParse
    /\ cdStage = "new"
    /\ IsotpPinned
    /\ SessPinned
    /\ DmPinned

CodecSerialize ==
    /\ cdStage = "new"
    /\ cdWire' = serialize(cdPdu)
    /\ cdStage' = "serialized"
    /\ UNCHANGED <<cdPdu, cdOut, notCodec>>

CodecParse ==
    /\ cdStage = "serialized"
    /\ cdOut' = parse(cdWire)
    /\ cdStage' = "parsed"
    /\ UNCHANGED <<cdPdu, cdWire, notCodec>>

CodecLibFrame ==
    /\ cdStage = "parsed"
    /\ cdWire' = PDU_frame(cdPdu)
    /\ cdOut' = NoParse
    /\ cdStage' = "framed"
    /\ UNCHANGED <<cdPdu, notCodec>>

CodecLibParse ==
    /\ cdStage = "framed"
    /\ LET r == PDU_fromFrame(cdWire) IN
          cdOut' = [consumed |-> IF r.ok THEN Len(cdWire) ELSE -1, pdu |-> r.pdu]
    /\ cdStage' = "reparsed"
    /\ UNCHANGED <<cdPdu, cdWire, notCodec>>

NextCodec ==
    \/ CodecSerialize
    \/ CodecParse
    \/ CodecLibFrame
    \/ CodecLibParse

SpecCodec == InitCodec /\ [][NextCodec]_vars

(***************************************************************************)
(* openChannel in the two codecs                                           *)
(***************************************************************************)
\* libCANyonero: Bytes(n) is the vector constructor that takes a size, so the
\* payload starts with as many zero bytes as the protocol value counts
Lib_openChannel(protocol, bitrate, rxSeparationTime, txSeparationTime) ==
    MkPDU(OpenChannelT,
          appendUint32BE([i \in 1..protocol |-> 0], bitrate)
              \o <<BitOr8((rxSeparationTime * 16) % 256, txSeparationTime)>>)

\* _payload[index]; beyond is what a read behind the end of the vector gives
Lib_payloadAt(p, index, beyond) ==
    IF index < Len(p.payload) THEN p.payload[index + 1] ELSE beyond

Lib_protocol(p, beyond) == Lib_payloadAt(p, 0, beyond)

Lib_bitrate(p, beyond) ==
    readUint32BE([i \in 1..4 |-> Lib_payloadAt(p, i, beyond)])

microsecondsFromSeparationTimeCode(separationTimeCode) ==
    IF separationTimeCode <= 6 THEN separationTimeCode * 1000
    ELSE IF separationTimeCode <= 15 THEN (separationTimeCode - 6) * 100
    ELSE 6000

Lib_separationTimes(p, beyond) ==
    <<microsecondsFromSeparationTimeCode(Lib_payloadAt(p, 5, beyond) \div 16),
      microsecondsFromSeparationTimeCode(Lib_payloadAt(p, 5, beyond) % 16)>>

\* ecuconnect-j2534
J2534_openChannel(protocol, bitrate, rxSeparationTime, txSeparationTime) ==
    MkPDU(OpenChannelT,
          appendUint32BE(<<protocol>>, bitrate)
              \o <<BitOr8((rxSeparationTime * 16) % 256, txSeparationTime % 16)>>)

\* cdPdu is the PDU openChannel returned, cdWire its serialization, cdOut the
\* arguments of the call and, once read, what the accessors return
ChannelProtocols == 0..6
Bitrates == {U32(500000), U32(125000), <<65535, 65535>>}
SeparationTimeCodes == {0, 1, 7, 15}

InitOpenChannel ==
    /\ cdPdu = DefaultPDU
    /\ cdWire = <<>>
    /\ cdOut = NoParse
    /\ cdStage = "new"
    /\ IsotpPinned
    /\ SessPinned
    /\ DmPinned

OpenChannelLibrary ==
    /\ cdStage = "new"
    /\ \E protocol \in ChannelProtocols, bitrate \in Bitrates,
          rx \in SeparationTimeCodes, tx \in SeparationTimeCodes :
          /\ cdPdu' = Lib_openChannel(protocol, bitrate, rx, tx)
          /\ cdWire' = PDU_frame(cdPdu')
          /\ cdOut' = [codec |-> "library", protocol |-> protocol, bitrate |-> bitrate,
                       rx |-> rx, tx |-> tx]
    /\ cdStage' = "built"
    /\ UNCHANGED notCodec

OpenChannelJ2534 ==
    /\ cdStage = "new"
    /\ \E protocol \in ChannelProtocols, bitrate \in Bitrates,
          rx \in SeparationTimeCodes, tx \in SeparationTimeCodes :
          /\ cdPdu' = J2534_openChannel(protocol, bitrate, rx, tx)
          /\ cdWire' = serialize(cdPdu')
          /\ cdOut' = [codec |-> "j2534", protocol |-> protocol, bitrate |-> bitrate,
                       rx |-> rx, tx |-> tx]
    /\ cdStage' = "built"
    /\ UNCHANGED notCodec

\* protocol(), bitrate() and separationTimes() of the library PDU
OpenChannelReadBack ==
    /\ cdStage = "built"
    /\ cdOut.codec = "library"
    /\ \E beyond \in {0, 255} :
          cdOut' = [codec |-> "library", protocol |-> cdOut.protocol,
                    bitrate |-> cdOut.bitrate, rx |-> cdOut.rx, tx |-> cdOut.tx,
                    readProtocol |-> Lib_protocol(cdPdu, beyond),
                    readBitrate |-> Lib_bitrate(cdPdu, beyond),
                    readSeparationTimes |-> Lib_separationTimes(cdPdu, beyond)]
    /\ cdStage' = "read"
    /\ UNCHANGED <<cdPdu, cdWire, notCodec>>

NextOpenChannel ==
    \/ OpenChannelLibrary
    \/ OpenChannelJ2534
    \/ OpenChannelReadBack

SpecOpenChannel == InitOpenChannel /\ [][NextOpenChannel]_vars

(***************************************************************************)
(* closeChannel in the two codecs                                          *)
(***************************************************************************)
\* libCANyonero
Lib_closeChannel(handle) == MkPDU(OpenChannelT, <<handle>>)

\* cdPdu is the PDU closeChannel returned, cdWire its serialization, cdOut
\* the codec and the handle of the call
InitCloseChannel ==
    /\ cdPdu = DefaultPDU
    /\ cdWire = <<>>
    /\ cdOut = NoParse
    /\ cdStage = "new"
    /\ IsotpPinned
    /\ SessPinned
    /\ DmPinned

CloseChannelLibrary ==
    /\ cdStage = "new"
    /\ \E handle \in 0..255 :
          /\ cdPdu' = Lib_closeChannel(handle)
          /\ cdWire' = PDU_frame(cdPdu')
          /\ cdOut' = [codec |-> "library", handle |-> handle]
    /\ cdStage' = "built"
    /\ UNCHANGED notCodec

CloseChannelJ2534 ==
    /\ cdStage = "new"
    /\ \E handle \in 0..255 :
          /\ cdPdu' = PDU_closeChannel(handle)
          /\ cdWire' = serialize(cdPdu')
          /\ cdOut' = [codec |-> "j2534", handle |-> handle]
    /\ cdStage' = "built"
    /\ UNCHANGED notCodec

NextCloseChannel ==
    \/ CloseChannelLibrary
    \/ CloseChannelJ2534

SpecCloseChannel == InitCloseChannel /\ [][NextCloseChannel]_vars

(***************************************************************************)
(* Session threads                                                         *)
(***************************************************************************)
\* the request timeout, in clock units
Timeout == 1

\* the request of caller 1 is setArbitration (expects Ok), the request of
\* caller 2 is readVoltage (expects Voltage)
RequestPDU(c) ==
    IF c = 1 THEN PDU_setArbitration(1, Arbitration(U32(2016), 0, U32(0), U32(0), 0))
    ELSE PDU_readVoltage

ExpectedType(c) == IF c = 1 THEN Ok ELSE Voltage

\* the positive response to the request of caller c
Response(c) == IF c = 1 THEN MkPDU(Ok, <<>>) ELSE MkPDU(Voltage, <<46, 224>>)

Negative == MkPDU(ErrorUnspecified, <<>>)

\* the k-th asynchronous delivery: handle 1, CAN id 0x700 + k, no data
ReceivedPDU(k) == MkPDU(Received, <<1, 0, 0, 7, k, 0>>)

RECURSIVE Flatten(_)
Flatten(pdus) ==
    IF pdus = <<>> THEN <<>> ELSE serialize(Head(pdus)) \o Flatten(Tail(pdus))

IsPrefix(a, b) == Len(a) <= Len(b) /\ a = SubSeq(b, 1, Len(a))

\* bool Protocol::send(const PDU&): no lock is taken
CallSend(c) ==
    /\ pc[c] = "idle"
    /\ wire' = Append(wire, [from |-> c, bytes |-> serialize(RequestPDU(c))])
    /\ pc' = [pc EXCEPT ![c] = "sent"]
    /\ UNCHANGED <<sess, inbound, answered, reply, peerStream, streamPdus, splitReads, chunk, start, result,
                   now, rxLog, appLog, parsedLog, fifoLog, polled, notSess>>

\* waitResponse up to the first wait: lock, set the expectation, clear the
\* slot, take startTime; async mode waits on the condition variable, sync
\* mode passes the first timeout check and drops the lock to read
CallWaitEnter(c) ==
    /\ pc[c] = "sent"
    /\ sess' = [sess EXCEPT !.expectedResponse = <<ExpectedType(c)>>,
                            !.capturedResponse = <<>>]
    /\ start' = [start EXCEPT ![c] = now]
    /\ pc' = [pc EXCEPT ![c] = IF sess.asyncMode THEN "cvwait" ELSE "recv"]
    /\ UNCHANGED <<inbound, wire, answered, reply, peerStream, streamPdus, splitReads, chunk, result, now,
                   rxLog, appLog, parsedLog, fifoLog, polled, notSess>>

\* transport_->receive(): what the socket holds (all of it, or a non-empty
\* first piece when the network splits), or nothing when it holds nothing;
\* the session mutex is not held
Receive(t, next) ==
    /\ \E k \in 0..Len(inbound) :
          /\ (k = 0) = (inbound = <<>>)
          /\ splitReads \/ k = Len(inbound)
          /\ chunk' = [chunk EXCEPT ![t] = SubSeq(inbound, 1, k)]
          /\ inbound' = SubSeq(inbound, k + 1, Len(inbound))
          /\ rxLog' = rxLog \o SubSeq(inbound, 1, k)
    /\ pc' = [pc EXCEPT ![t] = next]

\* sync mode: auto data = transport_->receive(50);
CallReceive(c) ==
    /\ pc[c] = "recv"
    /\ Receive(c, "relock")
    /\ UNCHANGED <<sess, wire, answered, reply, peerStream, streamPdus, splitReads, start, result, now,
                   appLog, parsedLog, fifoLog, polled, notSess>>

\* sync mode: lock.lock(), processReceivedData, the check of the slot, and
\* the timeout check of the next round of the loop
CallProcess(c) ==
    /\ pc[c] = "relock"
    /\ LET r == processIfData(sess, chunk[c]) IN
          /\ appLog' = appLog \o chunk[c]
          /\ parsedLog' = parsedLog \o r.parsed
          /\ fifoLog' = fifoLog \o r.pushed
          /\ IF r.s.capturedResponse # <<>>
             THEN /\ sess' = [r.s EXCEPT !.expectedResponse = <<>>,
                                         !.capturedResponse = <<MovedFrom(r.s.capturedResponse[1])>>]
                  /\ result' = [result EXCEPT ![c] =
                                    [status |-> "pdu", pdu |-> r.s.capturedResponse[1]]]
                  /\ pc' = [pc EXCEPT ![c] = "done"]
             ELSE IF now - start[c] >= Timeout
             THEN /\ sess' = [r.s EXCEPT !.expectedResponse = <<>>]
                  /\ result' = [result EXCEPT ![c] = [status |-> "timeout", pdu |-> DefaultPDU]]
                  /\ pc' = [pc EXCEPT ![c] = "done"]
             ELSE /\ sess' = r.s
                  /\ result' = result
                  /\ pc' = [pc EXCEPT ![c] = "recv"]
    /\ chunk' = [chunk EXCEPT ![c] = <<>>]
    /\ UNCHANGED <<inbound, wire, answered, reply, peerStream, streamPdus, splitReads, start, now, rxLog,
                   polled, notSess>>

\* async mode: responseCv_.wait_for returns, with the slot filled or at the
\* end of the timeout
CallCvWake(c) ==
    /\ pc[c] = "cvwait"
    /\ sess.capturedResponse # <<>> \/ now - start[c] >= Timeout
    /\ IF sess.capturedResponse # <<>>
       THEN /\ sess' = [sess EXCEPT !.expectedResponse = <<>>,
                                    !.capturedResponse = <<MovedFrom(sess.capturedResponse[1])>>]
            /\ result' = [result EXCEPT ![c] =
                              [status |-> "pdu", pdu |-> sess.capturedResponse[1]]]
       ELSE /\ sess' = [sess EXCEPT !.expectedResponse = <<>>]
            /\ result' = [result EXCEPT ![c] = [status |-> "timeout", pdu |-> DefaultPDU]]
    /\ pc' = [pc EXCEPT ![c] = "done"]
    /\ UNCHANGED <<inbound, wire, answered, reply, peerStream, streamPdus, splitReads, chunk, start, now,
                   rxLog, appLog, parsedLog, fifoLog, polled, notSess>>

\* receiveMessages, step 1: the read, before the mutex is taken
PumpReceive ==
    /\ pc[0] = "idle"
    /\ Receive(0, "got")
    /\ UNCHANGED <<sess, wire, answered, reply, peerStream, streamPdus, splitReads, start, result, now,
                   appLog, parsedLog, fifoLog, polled, notSess>>

\* receiveMessages, under the mutex: processReceivedData, then the queued
\* frames are drained and returned
PumpProcess ==
    /\ pc[0] = "got"
    /\ LET r == processIfData(sess, chunk[0]) IN
          /\ appLog' = appLog \o chunk[0]
          /\ parsedLog' = parsedLog \o r.parsed
          /\ fifoLog' = fifoLog \o r.pushed
          /\ polled' = polled \o r.s.frameQueue
          /\ sess' = [r.s EXCEPT !.frameQueue = <<>>]
    /\ chunk' = [chunk EXCEPT ![0] = <<>>]
    /\ pc' = [pc EXCEPT ![0] = "idle"]
    /\ UNCHANGED <<inbound, wire, answered, reply, peerStream, streamPdus, splitReads, start, result, now,
                   rxLog, notSess>>

\* the pump thread is started once no request is running (as connect()
\* starts the polling thread after openChannel has returned)
PumpStart ==
    /\ pc[0] = "off"
    /\ \A c \in Callers : pc[c] \in {"off", "done"}
    /\ pc' = [pc EXCEPT ![0] = "idle"]
    /\ UNCHANGED <<sess, inbound, wire, answered, reply, peerStream, streamPdus, splitReads, chunk, start,
                   result, now, rxLog, appLog, parsedLog, fifoLog, polled, notSess>>

\* the adapter answers the oldest unanswered request
PeerAnswer ==
    /\ answered < Len(wire)
    /\ inbound' = inbound \o Flatten(reply[wire[answered + 1].from])
    /\ answered' = answered + 1
    /\ UNCHANGED <<sess, wire, reply, peerStream, streamPdus, splitReads, pc, chunk, start, result, now,
                   rxLog, appLog, parsedLog, fifoLog, polled, notSess>>

\* the adapter emits its unsolicited bytes
PeerEmit ==
    /\ peerStream # <<>>
    /\ inbound' = inbound \o peerStream
    /\ peerStream' = <<>>
    /\ UNCHANGED <<sess, wire, answered, reply, streamPdus, splitReads, pc, chunk, start, result, now,
                   rxLog, appLog, parsedLog, fifoLog, polled, notSess>>

\* time passes only when no thread and no adapter output is pending: the
\* adapter answers, and the threads run, well inside a request timeout
Quiescent ==
    /\ inbound = <<>>
    /\ answered = Len(wire)
    /\ peerStream = <<>>
    /\ \A t \in Threads : pc[t] \notin {"sent", "relock", "got"}
    /\ \A c \in Callers : pc[c] = "cvwait" => sess.capturedResponse = <<>>

Tick ==
    /\ now < MaxTime
    /\ Quiescent
    /\ now' = now + 1
    /\ UNCHANGED <<sess, inbound, wire, answered, reply, peerStream, streamPdus, splitReads, pc, chunk, start,
                   result, rxLog, appLog, parsedLog, fifoLog, polled, notSess>>

(***************************************************************************)
(* Stream resynchronisation: the pump alone reads a stream of PDUs and     *)
(* garbage                                                                 *)
(***************************************************************************)
\* garbage between PDUs: nothing, bytes other than 0x1F, or a header whose
\* length field announces more payload than any PDU of the stream has
Garbage == {<<>>, <<171>>, <<171, 205>>, <<31, 128, 255, 255>>}

StreamPDUs == {MkPDU(Ok, <<>>), MkPDU(Pong, <<66>>)}

\* g[1] P[1] g[2] P[2] ... g[n+1]
RECURSIVE Interleave(_, _)
Interleave(ps, gs) ==
    IF ps = <<>> THEN Head(gs)
    ELSE Head(gs) \o serialize(Head(ps)) \o Interleave(Tail(ps), Tail(gs))

InitStream ==
    /\ \E ps \in SeqsUpTo(StreamPDUs, MaxStreamPDUs) :
          \E gs \in [1..(Len(ps) + 1) -> Garbage] :
             /\ inbound = Interleave(ps, gs)
             /\ streamPdus = ps
    /\ splitReads = TRUE
    /\ reply = [c \in Callers |-> <<>>]
    /\ peerStream = <<>>
    /\ sess = NewSession(FALSE)
    /\ wire = <<>>
    /\ answered = 0
    /\ pc = [t \in Threads |-> IF t = 0 THEN "idle" ELSE "off"]
    /\ chunk = [t \in Threads |-> <<>>]
    /\ start = [c \in Callers |-> 0]
    /\ result = [c \in Callers |-> NoResult]
    /\ now = 0
    /\ rxLog = <<>>
    /\ appLog = <<>>
    /\ parsedLog = <<>>
    /\ fifoLog = <<>>
    /\ polled = <<>>
    /\ IsotpPinned
    /\ CodecPinned
    /\ DmPinned

NextStream ==
    \/ PumpReceive
    \/ PumpProcess

SpecStream == InitStream /\ [][NextStream]_vars

(***************************************************************************)
(* Multiplexing: one caller in sync mode pumps the transport itself; the   *)
(* polling thread starts once the request has returned                     *)
(***************************************************************************)
ReplyAlphabet ==
    {ReceivedPDU(1), ReceivedPDU(2), Response(1), Negative, MkPDU(Pong, <<66>>)}

InitMux ==
    /\ reply \in {[c \in Callers |-> IF c = 1 THEN r ELSE <<>>] :
                     r \in SeqsUpTo(ReplyAlphabet, MaxReplyPDUs)}
    /\ sess = NewSession(FALSE)
    /\ inbound = <<>>
    /\ wire = <<>>
    /\ answered = 0
    /\ peerStream = <<>>
    /\ streamPdus = <<>>
    /\ splitReads = TRUE
    /\ pc = [t \in Threads |-> IF t = 1 THEN "idle" ELSE "off"]
    /\ chunk = [t \in Threads |-> <<>>]
    /\ start = [c \in Callers |-> 0]
    /\ result = [c \in Callers |-> NoResult]
    /\ now = 0
    /\ rxLog = <<>>
    /\ appLog = <<>>
    /\ parsedLog = <<>>
    /\ fifoLog = <<>>
    /\ polled = <<>>
    /\ IsotpPinned
    /\ CodecPinned
    /\ DmPinned

NextMux ==
    \/ CallSend(1)
    \/ CallWaitEnter(1)
    \/ CallReceive(1)
    \/ CallProcess(1)
    \/ PeerAnswer
    \/ Tick
    \/ PumpStart
    \/ PumpReceive
    \/ PumpProcess

SpecMux == InitMux /\ [][NextMux]_vars

(***************************************************************************)
(* Session under concurrency: one or two callers and the polling thread    *)
(***************************************************************************)
Replies(c) == {<<>>, <<Response(c)>>, <<Negative>>, <<ReceivedPDU(1), Response(c)>>}

Unsolicited == {<<>>, <<ReceivedPDU(2), ReceivedPDU(3)>>}

InitSession ==
    /\ \E asyncMode \in BOOLEAN : sess = NewSession(asyncMode)
    /\ \E active \in {{1}, {1, 2}} :
          /\ pc = [t \in Threads |-> IF t = 0 \/ t \in active THEN "idle" ELSE "off"]
          /\ reply \in {r \in [Callers -> Replies(1) \cup Replies(2)] :
                            \A c \in Callers :
                               r[c] \in (IF c \in active THEN Replies(c) ELSE {<<>>})}
    /\ streamPdus \in Unsolicited
    /\ peerStream = Flatten(streamPdus)
    /\ splitReads = FALSE
    /\ inbound = <<>>
    /\ wire = <<>>
    /\ answered = 0
    /\ chunk = [t \in Threads |-> <<>>]
    /\ start = [c \in Callers |-> 0]
    /\ result = [c \in Callers |-> NoResult]
    /\ now = 0
    /\ rxLog = <<>>
    /\ appLog = <<>>
    /\ parsedLog = <<>>
    /\ fifoLog = <<>>
    /\ polled = <<>>
    /\ IsotpPinned
    /\ CodecPinned
    /\ DmPinned

NextSession ==
    \/ \E c \in Callers : CallSend(c)
    \/ \E c \in Callers : CallWaitEnter(c)
    \/ \E c \in Callers : CallReceive(c)
    \/ \E c \in Callers : CallProcess(c)
    \/ \E c \in Callers : CallCvWake(c)
    \/ PumpReceive
    \/ PumpProcess
    \/ PeerAnswer
    \/ PeerEmit
    \/ Tick

SpecSession == InitSession /\ [][NextSession]_vars

(***************************************************************************)
(* Device manager: class DeviceManager (ecuconnect.cpp)                    *)
(***************************************************************************)
ERR_NOT_SUPPORTED == 1
ERR_INVALID_CHANNEL_ID == 2
ERR_INVALID_PROTOCOL_ID == 3
ERR_NULL_PARAMETER == 4
ERR_FAILED == 7
ERR_DEVICE_NOT_CONNECTED == 8
ERR_TIMEOUT == 9
ERR_BUFFER_EMPTY == 16
ERR_INVALID_MSG == 10
ERR_CHANNEL_IN_USE == 20
ERR_MSG_PROTOCOL_ID == 21
ERR_INVALID_BAUDRATE == 25
ERR_INVALID_DEVICE_ID == 26
CAN == 5
ISO15765 == 6
PASS_FILTER == 1
BLOCK_FILTER == 2
FLOW_CONTROL_FILTER == 3
DATA_RATE == 1
LOOPBACK == 3
TX_MSG_TYPE == 1
CAN_29BIT_ID == 256
MAX_BATCH_SIZE == 16384
Raw == 0
RequestInfo == 17
Info == 145

\* flags & bit, for a flag of one bit
HasFlag(flags, bit) == (flags \div bit) % 2 = 1

RECURSIVE BitAnd(_, _, _)
BitAnd(a, b, n) ==
    IF n = 0 THEN 0 ELSE (a % 2) * (b % 2) + 2 * BitAnd(a \div 2, b \div 2, n - 1)

\* a & b on uint32_t values
And32(a, b) == <<BitAnd(a[1], b[1], 16), BitAnd(a[2], b[2], 16)>>

\* a > b on uint32_t values
Gt32(a, b) == a[1] > b[1] \/ (a[1] = b[1] /\ a[2] > b[2])

PDU_requestInfo == MkPDU(RequestInfo, <<>>)

PDU_openChannel(protocol, bitrate) ==
    MkPDU(OpenChannelT, appendUint32BE(<<protocol>>, bitrate) \o <<0>>)

\* the concatenation of seqs[a..b], by halves
RECURSIVE Concat(_, _, _)
Concat(seqs, a, b) ==
    IF a > b THEN <<>>
    ELSE IF a = b THEN seqs[a]
    ELSE Concat(seqs, a, (a + b) \div 2) \o Concat(seqs, (a + b) \div 2 + 1, b)

\* the loop of sendBatch: each frame behind a byte with its size
PackFrames(frames) ==
    Concat([i \in DOMAIN frames |-> <<Len(frames[i]) % 256>> \o frames[i]], 1, Len(frames))

PDU_sendBatch(handle, frames) == MkPDU(SendT, <<handle>> \o PackFrames(frames))

\* One request of a device manager call, which runs under the manager's
\* mutex: send(), then waitResponse() in sync mode, which reads what the
\* adapter answers (replyBytes; nothing if the adapter stays silent or the
\* answer went to another reader) and returns what the dispatcher captured.
\* With timeout_ms = 0 the first check of the loop is already a timeout.
Request(connected, request, type, timeout, replyBytes) ==
    IF ~connected THEN [sent |-> <<>>, response |-> <<>>]
    ELSE [sent |-> <<request>>,
          response |->
              IF timeout = 0 THEN <<>>
              ELSE processIfData([NewSession(FALSE) EXCEPT !.expectedResponse = <<type>>],
                                 replyBytes).s.capturedResponse]

\* what the adapter answers to a request: its positive response, a negative
\* PDU, or nothing
ReplyKinds == {"positive", "negative", "none"}

ReplyBytes(kind, positive) ==
    IF kind = "positive" THEN serialize(positive)
    ELSE IF kind = "negative" THEN serialize(Negative)
    ELSE <<>>

\* std::optional<DeviceInfo> Protocol::getDeviceInfo
getDeviceInfo(connected, timeout, kind) ==
    LET r == Request(connected, PDU_requestInfo, Info, timeout,
                     ReplyBytes(kind, MkPDU(Info, <<65, 10, 66>>)))
    IN  [sent |-> r.sent,
         value |-> IF r.response = <<>> THEN <<>>
                   ELSE <<IF r.response[1].type # Info THEN <<>> ELSE r.response[1].payload>>]

\* std::optional<uint8_t> Protocol::openChannel, for a protocol without FD
openChannel(connected, protocol, bitrate, timeout, kind) ==
    LET r == Request(connected, PDU_openChannel(protocol, bitrate), ChannelOpened, timeout,
                     ReplyBytes(kind, MkPDU(ChannelOpened, <<1>>)))
    IN  [sent |-> r.sent,
         value |-> IF r.response = <<>> THEN <<>> ELSE <<channelHandle(r.response[1])>>]

closeChannel(connected, handle, timeout, kind) ==
    LET r == Request(connected, PDU_closeChannel(handle), ChannelClosed, timeout,
                     ReplyBytes(kind, MkPDU(ChannelClosed, <<handle>>)))
    IN  [sent |-> r.sent, value |-> r.response # <<>>]

setArbitration(connected, handle, arb, timeout, kind) ==
    LET r == Request(connected, PDU_setArbitration(handle, arb), Ok, timeout,
                     ReplyBytes(kind, MkPDU(Ok, <<>>)))
    IN  [sent |-> r.sent, value |-> r.response # <<>>]

\* fire and forget
sendMessages(connected, handle, frames) ==
    [sent |-> IF connected THEN <<PDU_sendBatch(handle, frames)>> ELSE <<>>,
     value |-> connected]

id_byte(can_id, index) ==
    IF index = 0 THEN (can_id[1] \div 256) % 256
    ELSE IF index = 1 THEN can_id[1] % 256
    ELSE IF index = 2 THEN (can_id[2] \div 256) % 256
    ELSE can_id[2] % 256

filter_matches_bytes_word(filter, can_id, data) ==
    And32(can_id, filter.mask) = And32(filter.pattern, filter.mask)

filter_matches_bytes(filter, can_id, data) ==
    IF filter.maskBytes # <<>> /\ Len(filter.maskBytes) = Len(filter.patternBytes)
    THEN \A i \in 0..(Len(filter.maskBytes) - 1) :
            /\ i >= 4 => i - 4 < Len(data)
            /\ LET value == IF i < 4 THEN id_byte(can_id, i) ELSE data[i - 3]
               IN  BitAnd(value, filter.maskBytes[i + 1], 8)
                      = BitAnd(filter.patternBytes[i + 1], filter.maskBytes[i + 1], 8)
    ELSE And32(can_id, filter.mask) = And32(filter.pattern, filter.mask)

arbitration_equals(lhs, rhs) ==
    /\ lhs.request = rhs.request
    /\ lhs.replyPattern = rhs.replyPattern
    /\ lhs.replyMask = rhs.replyMask
    /\ lhs.requestExtension = rhs.requestExtension
    /\ lhs.replyExtension = rhs.replyExtension

\* channel.filters is kept as the set of its Filter values, each with its key
\* in the map as the field id
message_passes_filters(channel, can_id, data) ==
    LET active == {f \in channel.filters : f.active}
        pass == {f \in active : f.type = PASS_FILTER}
        block == {f \in active : f.type = BLOCK_FILTER}
    IN  /\ \A f \in block : ~filter_matches_bytes(f, can_id, data)
        /\ pass # {} => \E f \in pass : filter_matches_bytes(f, can_id, data)

\* PASSTHRU_MSG without Timestamp and ExtraDataIndex; Data holds the first
\* DataSize bytes of the array
PASSTHRU_MSG(protocolId, rxStatus, txFlags, data) ==
    [ProtocolID |-> protocolId, RxStatus |-> rxStatus, TxFlags |-> txFlags,
     DataSize |-> Len(data), Data |-> data]

\* a Channel as connect() fills it; hasTxArb, lastTxArb as the code uses them
NewChannel(deviceId, protocolId, flags, baudrate, ecuHandle) ==
    [deviceId |-> deviceId, protocolId |-> protocolId, flags |-> flags,
     baudrate |-> baudrate, ecuHandle |-> ecuHandle, filters |-> {}, nextFilterId |-> 1,
     rxQueue |-> <<>>, loopback |-> FALSE, dataRate |-> baudrate,
     hasTxArb |-> FALSE, lastTxArb |-> Arbitration(U32(0), 0, U32(0), U32(0), 0)]

\* a Device as openDevice() fills it; channels maps channel ids to Channels
NewDevice(info) ==
    [connected |-> TRUE, info |-> info, channels |-> <<>>, stopPolling |-> FALSE,
     pollingThread |-> "none"]

\* f with key k removed (unordered_map::erase)
Erase(f, k) == [x \in DOMAIN f \ {k} |-> f[x]]

\* the key of a batch: CAN id from Data[0..3], extension from TxFlags
BatchKey(msg) ==
    [canId |-> readUint32BE(msg.Data),
     extension |-> IF HasFlag(msg.TxFlags, CAN_29BIT_ID) THEN 1 ELSE 0]

\* the sum of f[a..b], by halves
RECURSIVE Sum(_, _, _)
Sum(f, a, b) ==
    IF a > b THEN 0
    ELSE IF a = b THEN f[a]
    ELSE Sum(f, a, (a + b) \div 2) + Sum(f, (a + b) \div 2 + 1, b)

\* the inner while loop of writeMsgs, from message i (1-based) on, with an
\* empty batch and batchBytes = 1: it runs up to the first message j that
\* meets one of its breaks
CollectBatch(msgs, i, key, protocolId) ==
    LET frameSize == [k \in DOMAIN msgs |-> 1 + (msgs[k].DataSize - 4)]
        breaks(j) ==
            \/ msgs[j].ProtocolID # protocolId
            \/ msgs[j].DataSize < 4
            \/ BatchKey(msgs[j]) # key
            \/ 1 + Sum(frameSize, i, j) > MAX_BATCH_SIZE /\ j > i
        broken == {j \in i..Len(msgs) : breaks(j)}
        stop == IF broken = {} THEN Len(msgs) + 1
                ELSE CHOOSE j \in broken : \A k \in broken : j <= k
    IN  [batch |-> [k \in 1..(stop - i) |->
                       SubSeq(msgs[i + k - 1].Data, 5, msgs[i + k - 1].DataSize)],
         i |-> stop]

Loopback_unfiltered(channel, msgs, first, batch, key) ==
    IF channel.loopback
    THEN [j \in DOMAIN batch |->
             [msgs[first + j - 1] EXCEPT
                 !.RxStatus = TX_MSG_TYPE
                     + (IF HasFlag(msgs[first + j - 1].TxFlags, CAN_29BIT_ID)
                        THEN CAN_29BIT_ID ELSE 0)]]
    ELSE <<>>

\* the loopback copies of the messages of a batch that begins at message
\* first, in message order
Loopback(channel, msgs, first, batch, key) ==
    LET copy(j) == [msgs[first + j - 1] EXCEPT
                       !.RxStatus = TX_MSG_TYPE
                           + (IF HasFlag(msgs[first + j - 1].TxFlags, CAN_29BIT_ID)
                              THEN CAN_29BIT_ID ELSE 0)]
        wanted(j) == channel.loopback /\ message_passes_filters(channel, key.canId, batch[j])
    IN  Concat([j \in DOMAIN batch |-> IF wanted(j) THEN <<copy(j)>> ELSE <<>>],
               1, Len(batch))

\* the adapter's answer to the n-th SetArbitration of a call: fail.kind to
\* the fail.at-th, the positive response to every other
ArbReply(fail, n) == IF n = fail.at THEN fail.kind ELSE "positive"

\* the outer while loop of writeMsgs; st holds i (1-based), the channel,
\* *numMsgs, the PDUs handed to the transport, and the number of
\* SetArbitration requests made
RECURSIVE writeLoop(_, _, _, _, _)
writeLoop(st, msgs, connected, timeout, fail) ==
    IF st.i > Len(msgs) THEN [st EXCEPT !.status = STATUS_NOERROR]
    ELSE LET firstMsg == msgs[st.i] IN
         IF firstMsg.ProtocolID # st.ch.protocolId
         THEN [st EXCEPT !.status = ERR_MSG_PROTOCOL_ID]
         ELSE IF firstMsg.DataSize < 4
         THEN [st EXCEPT !.status = ERR_INVALID_MSG]
         ELSE LET key == BatchKey(firstMsg)
                  c == CollectBatch(msgs, st.i, key, st.ch.protocolId)
                  arb == Arbitration(key.canId, key.extension, U32(0), U32(0), 0)
                  needArb == ~st.ch.hasTxArb \/ ~arbitration_equals(st.ch.lastTxArb, arb)
                  set == setArbitration(connected, st.ch.ecuHandle, arb, timeout,
                                        ArbReply(fail, st.sets + 1))
                  ch1 == IF needArb THEN [st.ch EXCEPT !.lastTxArb = arb, !.hasTxArb = TRUE]
                         ELSE st.ch
                  wire1 == IF needArb THEN st.wire \o set.sent ELSE st.wire
                  snd1 == sendMessages(connected, st.ch.ecuHandle, c.batch)
              IN  IF c.batch = <<>> THEN writeLoop([st EXCEPT !.i = @ + 1],
                                                   msgs, connected, timeout, fail)
                  ELSE IF needArb /\ ~set.value
                  THEN [st EXCEPT !.wire = wire1, !.status = ERR_FAILED]
                  ELSE IF ~snd1.value
                  THEN [st EXCEPT !.ch = ch1, !.wire = wire1, !.status = ERR_FAILED]
                  ELSE writeLoop(
                         [i |-> c.i,
                          ch |-> [ch1 EXCEPT !.rxQueue =
                                     @ \o Loopback(ch1, msgs, st.i, c.batch, key)],
                          numMsgs |-> st.numMsgs + Len(c.batch),
                          wire |-> wire1 \o snd1.sent,
                          sets |-> st.sets + (IF needArb THEN 1 ELSE 0),
                          status |-> st.status],
                         msgs, connected, timeout, fail)

\* long DeviceManager::writeMsgs on an existing channel
writeMsgs(channel, connected, msgs, timeout, fail) ==
    writeLoop([i |-> 1, ch |-> channel, numMsgs |-> 0, wire |-> <<>>, sets |-> 0,
               status |-> STATUS_NOERROR],
              msgs, connected, timeout, fail)

\* the payload of the SetArbitration PDU the adapter answered Ok to last, if
\* any: prev, unless sent holds such a PDU; the n-th SetArbitration PDU of
\* sent is answered as ArbReply(fail, n)
AdapterAfter(prev, sent, fail) ==
    LET sets == {i \in DOMAIN sent : sent[i].type = SetArbitrationT}
        done == {i \in sets : ArbReply(fail, Cardinality({k \in sets : k <= i})) = "positive"}
    IN  IF done = {} THEN prev
        ELSE <<sent[CHOOSE i \in done : \A k \in done : k <= i].payload>>

Returned(op, arg, status) ==
    [NoCall EXCEPT !.op = op, !.arg = arg, !.status = status, !.writes = dmCall.writes,
                   !.adapterArb = dmCall.adapterArb]

\* an API entry point takes the manager's mutex_ with a lock_guard
ApiReady == ~terminated /\ apiPc = "idle" /\ mutexOwner = FREE

\* openDevice taking an ID from the counter before it knows that it succeeds
OpenDevice_countsFailure(linkOk, kind) ==
    /\ ApiReady
    /\ nextDeviceId <= MaxIds
    /\ LET info == getDeviceInfo(TRUE, 2000, kind) IN
          IF ~linkOk \/ info.value = <<>>
          THEN /\ dmCall' = [Returned("openDevice", 0, ERR_DEVICE_NOT_CONNECTED)
                                EXCEPT !.reply = kind]
               /\ nextDeviceId' = nextDeviceId + 1
               /\ UNCHANGED devices
          ELSE /\ devices' = devices @@ (nextDeviceId :> NewDevice(info.value[1]))
               /\ nextDeviceId' = nextDeviceId + 1
               /\ dmCall' = [Returned("openDevice", 0, STATUS_NOERROR)
                                EXCEPT !.reply = kind, !.id = nextDeviceId]
    /\ UNCHANGED <<channelToDevice, mutexOwner, terminated, apiPc, apiArg, pollPc,
                   pollFrames, rxLeft, reader, notDm>>

\* long DeviceManager::openDevice; linkOk: protocol->connect() succeeds
OpenDevice(linkOk, kind) ==
    /\ ApiReady
    /\ nextDeviceId <= MaxIds
    /\ LET info == getDeviceInfo(TRUE, 2000, kind) IN
          IF ~linkOk \/ info.value = <<>>
          THEN /\ dmCall' = [Returned("openDevice", 0, ERR_DEVICE_NOT_CONNECTED)
                                EXCEPT !.reply = kind]
               /\ UNCHANGED <<devices, nextDeviceId>>
          ELSE /\ devices' = devices @@ (nextDeviceId :> NewDevice(info.value[1]))
               /\ nextDeviceId' = nextDeviceId + 1
               /\ dmCall' = [Returned("openDevice", 0, STATUS_NOERROR)
                                EXCEPT !.reply = kind, !.id = nextDeviceId]
    /\ UNCHANGED <<channelToDevice, mutexOwner, terminated, apiPc, apiArg, pollPc,
                   pollFrames, rxLeft, reader, notDm>>

\* closeDevice erasing the device and leaving the side map as it is
CloseDevice_keepsSideMap(d) ==
    /\ ApiReady
    /\ IF d \notin DOMAIN devices
       THEN /\ dmCall' = Returned("closeDevice", d, ERR_INVALID_DEVICE_ID)
            /\ UNCHANGED <<devices, channelToDevice, terminated>>
       ELSE /\ channelToDevice' = channelToDevice
            /\ devices' = Erase(devices, d)
            /\ terminated' = (devices[d].pollingThread = "joinable")
            /\ dmCall' = Returned("closeDevice", d, STATUS_NOERROR)
    /\ UNCHANGED <<nextDeviceId, mutexOwner, apiPc, apiArg, pollPc, pollFrames, rxLeft,
                   reader, notDm>>

\* long DeviceManager::closeDevice; the Device is destroyed by the erase,
\* and with it a std::thread that may still be joinable
CloseDevice(d) ==
    /\ ApiReady
    /\ IF d \notin DOMAIN devices
       THEN /\ dmCall' = Returned("closeDevice", d, ERR_INVALID_DEVICE_ID)
            /\ UNCHANGED <<devices, channelToDevice, terminated>>
       ELSE /\ channelToDevice' =
                  [c \in DOMAIN channelToDevice \ DOMAIN devices[d].channels |->
                      channelToDevice[c]]
            /\ devices' = Erase(devices, d)
            /\ terminated' = (devices[d].pollingThread = "joinable")
            /\ dmCall' = Returned("closeDevice", d, STATUS_NOERROR)
    /\ UNCHANGED <<nextDeviceId, mutexOwner, apiPc, apiArg, pollPc, pollFrames, rxLeft,
                   reader, notDm>>

\* long DeviceManager::connect
Connect(d, protocolId, baudrate, kind) ==
    /\ ApiReady
    /\ nextDeviceId <= MaxIds
    /\ IF d \notin DOMAIN devices
       THEN /\ dmCall' = Returned("connect", d, ERR_INVALID_DEVICE_ID)
            /\ UNCHANGED <<devices, channelToDevice, nextDeviceId, terminated, pollPc>>
       ELSE IF DOMAIN devices[d].channels # {}
       THEN /\ dmCall' = Returned("connect", d, ERR_CHANNEL_IN_USE)
            /\ UNCHANGED <<devices, channelToDevice, nextDeviceId, terminated, pollPc>>
       ELSE IF protocolId # CAN
       THEN /\ dmCall' = Returned("connect", d, ERR_INVALID_PROTOCOL_ID)
            /\ UNCHANGED <<devices, channelToDevice, nextDeviceId, terminated, pollPc>>
       ELSE IF baudrate = 0
       THEN /\ dmCall' = Returned("connect", d, ERR_INVALID_BAUDRATE)
            /\ UNCHANGED <<devices, channelToDevice, nextDeviceId, terminated, pollPc>>
       ELSE LET handle == openChannel(devices[d].connected, Raw, U32(baudrate), 1000, kind) IN
            IF handle.value = <<>>
            THEN /\ dmCall' = [Returned("connect", d, ERR_FAILED)
                                  EXCEPT !.reply = kind, !.wire = handle.sent]
                 /\ UNCHANGED <<devices, channelToDevice, nextDeviceId, terminated, pollPc>>
            ELSE /\ devices' = [devices EXCEPT
                        ![d].channels = @ @@ (nextDeviceId :>
                            NewChannel(d, protocolId, 0, baudrate, handle.value[1])),
                        ![d].stopPolling = FALSE,
                        ![d].pollingThread = "joinable"]
                 /\ channelToDevice' = channelToDevice @@ (nextDeviceId :> d)
                 /\ nextDeviceId' = nextDeviceId + 1
                 \* move-assignment to a std::thread that is joinable
                 /\ terminated' = (devices[d].pollingThread = "joinable")
                 /\ pollPc' = [pollPc EXCEPT ![d] = "check"]
                 /\ dmCall' = [Returned("connect", d, STATUS_NOERROR)
                                  EXCEPT !.reply = kind, !.id = nextDeviceId,
                                         !.wire = handle.sent]
    /\ UNCHANGED <<mutexOwner, apiPc, apiArg, pollFrames, rxLeft, reader, notDm>>

\* the end of disconnect, after the join: closeChannel, the periodic
\* messages (none in this model), and the two erases
DisconnectTail(c, d) ==
    /\ devices' = [devices EXCEPT ![d].channels = Erase(@, c),
                                  ![d].pollingThread =
                                      IF @ = "joinable" THEN "joined" ELSE @,
                                  ![d].stopPolling =
                                      devices[d].pollingThread = "joinable" \/ @]
    /\ channelToDevice' = Erase(channelToDevice, c)
    /\ dmCall' = Returned("disconnect", c, STATUS_NOERROR)
    /\ mutexOwner' = FREE
    /\ apiPc' = "idle"
    /\ apiArg' = 0

\* disconnect giving the manager's mutex_ up while it joins the polling thread
Disconnect_unlocked(c) ==
    /\ ~terminated
    /\ IF apiPc = "idle"
       THEN /\ mutexOwner = FREE
            /\ IF c \notin DOMAIN channelToDevice
               THEN /\ dmCall' = Returned("disconnect", c, ERR_INVALID_CHANNEL_ID)
                    /\ UNCHANGED <<devices, channelToDevice, mutexOwner, apiPc, apiArg>>
               ELSE IF channelToDevice[c] \notin DOMAIN devices
               THEN /\ dmCall' = Returned("disconnect", c, ERR_INVALID_DEVICE_ID)
                    /\ UNCHANGED <<devices, channelToDevice, mutexOwner, apiPc, apiArg>>
               ELSE IF c \notin DOMAIN devices[channelToDevice[c]].channels
               THEN /\ dmCall' = Returned("disconnect", c, ERR_INVALID_CHANNEL_ID)
                    /\ UNCHANGED <<devices, channelToDevice, mutexOwner, apiPc, apiArg>>
               ELSE IF devices[channelToDevice[c]].pollingThread = "joinable"
               THEN \* stopPolling = true, and the join begins
                    /\ devices' = [devices EXCEPT ![channelToDevice[c]].stopPolling = TRUE]
                    /\ mutexOwner' = FREE
                    /\ apiPc' = "joining"
                    /\ apiArg' = c
                    /\ UNCHANGED <<channelToDevice, dmCall>>
               ELSE DisconnectTail(c, channelToDevice[c])
       ELSE /\ apiPc = "joining"
            /\ apiArg = c
            /\ pollPc[channelToDevice[c]] = "exit"
            /\ DisconnectTail(c, channelToDevice[c])
    /\ UNCHANGED <<nextDeviceId, terminated, pollPc, pollFrames, rxLeft, reader, notDm>>

\* long DeviceManager::disconnect. The lock_guard is held from the first
\* line to the return; pollingThread.join() returns once the polling thread
\* has left pollingThreadFunc.
Disconnect(c) ==
    /\ ~terminated
    /\ IF apiPc = "idle"
       THEN /\ mutexOwner = FREE
            /\ IF c \notin DOMAIN channelToDevice
               THEN /\ dmCall' = Returned("disconnect", c, ERR_INVALID_CHANNEL_ID)
                    /\ UNCHANGED <<devices, channelToDevice, mutexOwner, apiPc, apiArg>>
               ELSE IF channelToDevice[c] \notin DOMAIN devices
               THEN /\ dmCall' = Returned("disconnect", c, ERR_INVALID_DEVICE_ID)
                    /\ UNCHANGED <<devices, channelToDevice, mutexOwner, apiPc, apiArg>>
               ELSE IF c \notin DOMAIN devices[channelToDevice[c]].channels
               THEN /\ dmCall' = Returned("disconnect", c, ERR_INVALID_CHANNEL_ID)
                    /\ UNCHANGED <<devices, channelToDevice, mutexOwner, apiPc, apiArg>>
               ELSE IF devices[channelToDevice[c]].pollingThread = "joinable"
               THEN \* stopPolling = true, and the join begins
                    /\ devices' = [devices EXCEPT ![channelToDevice[c]].stopPolling = TRUE]
                    /\ mutexOwner' = API
                    /\ apiPc' = "joining"
                    /\ apiArg' = c
                    /\ UNCHANGED <<channelToDevice, dmCall>>
               ELSE DisconnectTail(c, channelToDevice[c])
       ELSE /\ apiPc = "joining"
            /\ apiArg = c
            /\ pollPc[channelToDevice[c]] = "exit"
            /\ DisconnectTail(c, channelToDevice[c])
    /\ UNCHANGED <<nextDeviceId, terminated, pollPc, pollFrames, rxLeft, reader, notDm>>

\* pollingThreadFunc, top of the loop: under the manager's mutex_, look the
\* device up and check stopPolling
PollCheck(d) ==
    /\ ~terminated
    /\ pollPc[d] = "check"
    /\ mutexOwner = FREE
    /\ pollPc' = [pollPc EXCEPT ![d] =
                     IF d \notin DOMAIN devices \/ devices[d].stopPolling THEN "exit"
                     ELSE IF ~devices[d].connected THEN "check"
                     ELSE "recv"]
    /\ UNCHANGED <<devices, channelToDevice, nextDeviceId, mutexOwner, terminated, apiPc,
                   apiArg, pollFrames, rxLeft, dmCall, reader, notDm>>

\* the frame the adapter delivers: channel 1, id 0x7E8, two bytes
RxFrame == CANFrame(1, U32(2024), 0, <<1, 2>>)

\* pollingThreadFunc: device->protocol->receiveMessages(100), without the
\* manager's mutex_
PollReceive(d) ==
    /\ ~terminated
    /\ pollPc[d] = "recv"
    /\ \E n \in 0..Min(1, rxLeft) :
          /\ pollFrames' = [pollFrames EXCEPT ![d] = [i \in 1..n |-> RxFrame]]
          /\ rxLeft' = rxLeft - n
          /\ pollPc' = [pollPc EXCEPT ![d] = IF n = 0 THEN "check" ELSE "deliver"]
    /\ UNCHANGED <<devices, channelToDevice, nextDeviceId, mutexOwner, terminated, apiPc,
                   apiArg, dmCall, reader, notDm>>

\* the PASSTHRU_MSG the polling thread builds from a frame
RxMsg(channel, frame) ==
    PASSTHRU_MSG(channel.protocolId,
                 IF Gt32(frame.id, U32(2047)) THEN CAN_29BIT_ID ELSE 0,
                 0,
                 <<id_byte(frame.id, 0), id_byte(frame.id, 1), id_byte(frame.id, 2),
                   id_byte(frame.id, 3)>> \o frame.data)

RECURSIVE Deliver(_, _)
Deliver(channel, frames) ==
    IF frames = <<>> THEN channel
    ELSE Deliver(IF message_passes_filters(channel, Head(frames).id, Head(frames).data)
                 THEN [channel EXCEPT !.rxQueue = Append(@, RxMsg(channel, Head(frames)))]
                 ELSE channel,
                 Tail(frames))

\* pollingThreadFunc: under the manager's mutex_, the frames go to the RX
\* queue of the device's channel
PollDeliver(d) ==
    /\ ~terminated
    /\ pollPc[d] = "deliver"
    /\ mutexOwner = FREE
    /\ d \in DOMAIN devices
    /\ devices' =
          IF DOMAIN devices[d].channels = {} THEN devices
          ELSE LET c == CHOOSE x \in DOMAIN devices[d].channels : TRUE IN
               [devices EXCEPT ![d].channels[c] = Deliver(@, pollFrames[d])]
    /\ pollFrames' = [pollFrames EXCEPT ![d] = <<>>]
    /\ pollPc' = [pollPc EXCEPT ![d] = "check"]
    /\ UNCHANGED <<channelToDevice, nextDeviceId, mutexOwner, terminated, apiPc, apiArg,
                   rxLeft, dmCall, reader, notDm>>

\* long DeviceManager::writeMsgs
WriteMsgs(c, msgs, timeout, fail) ==
    /\ ApiReady
    /\ dmCall.writes < MaxWrites
    /\ IF c \notin DOMAIN channelToDevice
       THEN /\ dmCall' = [Returned("writeMsgs", c, ERR_INVALID_CHANNEL_ID) EXCEPT
                             !.msgs = msgs, !.timeout = timeout, !.fail = fail,
                             !.writes = @ + 1]
            /\ UNCHANGED devices
       ELSE LET d == channelToDevice[c]
                r == writeMsgs(devices[d].channels[c], devices[d].connected,
                               msgs, timeout, fail)
            IN  /\ devices' = [devices EXCEPT ![d].channels[c] = r.ch]
                /\ dmCall' = [Returned("writeMsgs", c, r.status) EXCEPT
                                 !.msgs = msgs, !.timeout = timeout, !.fail = fail,
                                 !.numMsgs = r.numMsgs, !.wire = r.wire,
                                 !.before = <<devices[d].channels[c]>>,
                                 !.writes = @ + 1,
                                 !.adapterArb = AdapterAfter(@, r.wire, fail)]
    /\ UNCHANGED <<channelToDevice, nextDeviceId, mutexOwner, terminated, apiPc, apiArg,
                   pollPc, pollFrames, rxLeft, reader, notDm>>

(***************************************************************************)
(* Devices, channels and polling threads                                   *)
(***************************************************************************)
InitDM ==
    /\ devices = <<>>
    /\ channelToDevice = <<>>
    /\ nextDeviceId = 1
    /\ mutexOwner = FREE
    /\ terminated = FALSE
    /\ apiPc = "idle"
    /\ apiArg = 0
    /\ pollPc = [d \in 1..MaxIds |-> "none"]
    /\ pollFrames = [d \in 1..MaxIds |-> <<>>]
    /\ rxLeft = MaxRxFrames
    /\ reader = NoReader
    /\ dmCall = NoCall
    /\ IsotpPinned
    /\ CodecPinned
    /\ SessPinned

NextDM ==
    \/ \E linkOk \in BOOLEAN, kind \in ReplyKinds : OpenDevice(linkOk, kind)
    \/ \E d \in 1..MaxIds : CloseDevice(d)
    \/ \E d \in 1..MaxIds, protocolId \in {CAN, ISO15765}, baudrate \in {0, 500000},
          kind \in ReplyKinds : Connect(d, protocolId, baudrate, kind)
    \/ \E c \in 1..MaxIds : Disconnect(c)
    \/ \E d \in 1..MaxIds : PollCheck(d)
    \/ \E d \in 1..MaxIds : PollReceive(d)
    \/ \E d \in 1..MaxIds : PollDeliver(d)

SpecDM == InitDM /\ [][NextDM]_vars

\* a polling thread that can run does run, and so does a disconnect whose
\* join can return; which calls the application makes is left open
PollingStep == \E d \in 1..MaxIds : PollCheck(d) \/ PollReceive(d) \/ PollDeliver(d)
JoinReturns == \E c \in 1..MaxIds : apiPc = "joining" /\ Disconnect(c)

SpecDMLive == SpecDM /\ WF_vars(PollingStep) /\ WF_vars(JoinReturns)

(***************************************************************************)
(* Transmission: writeMsgs on an open channel                              *)
(***************************************************************************)
\* a CAN message to id with the data bytes 1..n
TxMsg(txFlags, id, n) ==
    PASSTHRU_MSG(CAN, 0, txFlags,
                 <<id_byte(U32(id), 0), id_byte(U32(id), 1), id_byte(U32(id), 2),
                   id_byte(U32(id), 3)>> \o [i \in 1..n |-> i % 256])

TxKinds == {TxMsg(0, 2016, 2), TxMsg(0, 2024, 1), TxMsg(CAN_29BIT_ID, 2016, 0)}

\* not for this channel, and too short to hold a CAN id
TxForeign == PASSTHRU_MSG(ISO15765, 0, 0, <<0, 0, 7, 224, 1>>)
TxShort == PASSTHRU_MSG(CAN, 0, 0, <<0, 0, 7>>)

Repeat(m, n) == [i \in 1..n |-> m]

\* the longest frame a length byte announces, and how many of them fill a batch
LongFrame == 255
FullBatch == (MAX_BATCH_SIZE - 1) \div (1 + LongFrame)

TxInputs ==
    SeqsUpTo(TxKinds, MaxMsgs)
        \cup {<<TxForeign>>, <<TxMsg(0, 2016, 2), TxForeign>>,
              <<TxShort>>, <<TxMsg(0, 2016, 2), TxShort, TxMsg(0, 2016, 2)>>}
        \cup {Repeat(TxMsg(0, 2016, 2), 3) \o Repeat(TxMsg(0, 2024, 1), 2)}
        \cup {Repeat(TxMsg(0, 2016, LongFrame), FullBatch + 1),
              Repeat(TxMsg(0, 2016, LongFrame), FullBatch) \o <<TxMsg(0, 2016, LongFrame - 1)>>,
              Repeat(TxMsg(0, 2016, LongFrame), FullBatch) \o <<TxMsg(0, 2016, LongFrame)>>
                  \o <<TxMsg(0, 2024, 1)>>}

TxFails == {[at |-> 0, kind |-> "none"]}
               \cup [at : 1..2, kind : {"negative", "none"}]

\* the arbitration writeMsgs programs for a batch to id
TxArb(id) == Arbitration(U32(id), 0, U32(0), U32(0), 0)

\* device 1 with channel 2, as openDevice and connect leave them, fresh or
\* after earlier writeMsgs calls; the loopback flag as ioctl sets it
InitTx ==
    /\ \E loopback \in BOOLEAN, last \in {<<>>, <<TxArb(2016)>>, <<TxArb(2024)>>} :
          devices = (1 :> [NewDevice(<<65>>) EXCEPT
                              !.pollingThread = "joinable",
                              !.channels = (2 :>
                                  [NewChannel(1, CAN, 0, 500000, 1) EXCEPT
                                      !.loopback = loopback,
                                      !.hasTxArb = last # <<>>,
                                      !.lastTxArb = IF last = <<>> THEN @ ELSE last[1]])])
    /\ channelToDevice = (2 :> 1)
    /\ nextDeviceId = 3
    /\ mutexOwner = FREE
    /\ terminated = FALSE
    /\ apiPc = "idle"
    /\ apiArg = 0
    /\ pollPc = [d \in 1..MaxIds |-> IF d = 1 THEN "check" ELSE "none"]
    /\ pollFrames = [d \in 1..MaxIds |-> <<>>]
    /\ rxLeft = 0
    /\ reader = NoReader
    /\ dmCall = [NoCall EXCEPT !.adapterArb =
                     IF devices[1].channels[2].hasTxArb
                     THEN <<PDU_setArbitration(1, devices[1].channels[2].lastTxArb).payload>>
                     ELSE <<>>]
    /\ IsotpPinned
    /\ CodecPinned
    /\ SessPinned

NextTx ==
    \E c \in 1..MaxIds, msgs \in TxInputs, timeout \in {0, 1000}, fail \in TxFails :
        WriteMsgs(c, msgs, timeout, fail)

SpecTx == InitTx /\ [][NextTx]_vars

(***************************************************************************)
(* Filters, loopback and the adapter's arbitration                         *)
(***************************************************************************)
\* a PASSTHRU_MSG whose DataSize is size; Data holds the leading bytes of the
\* array, also those behind DataSize
FilterMsg(array, size) == [PASSTHRU_MSG(CAN, 0, 0, array) EXCEPT !.DataSize = size]

\* long DeviceManager::startMsgFilter on an existing channel; maskMsg and
\* patternMsg hold one message or none (a null pointer), filterId tells
\* whether the out pointer is set. Filter::flowControlId, which nothing
\* reads, is left out
startMsgFilter(channel, connected, filterType, maskMsg, patternMsg, filterId, kind) ==
    LET none == [ch |-> channel, status |-> STATUS_NOERROR, filterId |-> 0, sent |-> <<>>]
        word(m) == <<m.Data[1] * 256 + m.Data[2], m.Data[3] * 256 + m.Data[4]>>
    IN  IF filterType \notin {PASS_FILTER, BLOCK_FILTER, FLOW_CONTROL_FILTER}
        THEN [none EXCEPT !.status = ERR_INVALID_MSG]
        ELSE IF filterType = FLOW_CONTROL_FILTER /\ channel.protocolId # ISO15765
        THEN [none EXCEPT !.status = ERR_NOT_SUPPORTED]
        ELSE LET maskSize == maskMsg[1].DataSize
                 patternSize == patternMsg[1].DataSize
                 filter == [id |-> channel.nextFilterId,
                            type |-> filterType,
                            mask |-> word(maskMsg[1]),
                            pattern |-> word(patternMsg[1]),
                            maskBytes |-> SubSeq(maskMsg[1].Data, 1, maskSize),
                            patternBytes |-> SubSeq(patternMsg[1].Data, 1, patternSize),
                            active |-> TRUE]
                 arb == Arbitration(U32(0), 0, U32(0), U32(0), 0)
             IN  IF \/ maskSize = 0
                    \/ patternSize = 0
                    \/ maskSize > 12
                    \/ patternSize > 12
                    \/ maskSize # patternSize
                 THEN [none EXCEPT !.status = ERR_INVALID_MSG]
                 ELSE [ch |-> [channel EXCEPT !.nextFilterId = @ + 1,
                                              !.filters = @ \cup {filter}],
                       status |-> STATUS_NOERROR,
                       filterId |-> channel.nextFilterId,
                       sent |-> setArbitration(connected, channel.ecuHandle, arb, 1000,
                                               kind).sent]

\* long DeviceManager::startMsgFilter
StartMsgFilter(c, filterType, maskMsg, patternMsg, filterId, kind) ==
    /\ ApiReady
    /\ IF maskMsg = <<>> \/ patternMsg = <<>> \/ ~filterId
       THEN /\ dmCall' = Returned("startMsgFilter", c, ERR_NULL_PARAMETER)
            /\ UNCHANGED devices
       ELSE IF c \notin DOMAIN channelToDevice
       THEN /\ dmCall' = Returned("startMsgFilter", c, ERR_INVALID_CHANNEL_ID)
            /\ UNCHANGED devices
       ELSE LET d == channelToDevice[c]
                r == startMsgFilter(devices[d].channels[c], devices[d].connected,
                                    filterType, maskMsg, patternMsg, filterId, kind)
            IN  /\ devices[d].channels[c].nextFilterId <= MaxFilters
                /\ devices' = [devices EXCEPT ![d].channels[c] = r.ch]
                /\ dmCall' = [Returned("startMsgFilter", c, r.status) EXCEPT
                                 !.id = r.filterId, !.reply = kind, !.wire = r.sent,
                                 !.before = <<devices[d].channels[c]>>,
                                 !.adapterArb =
                                     AdapterAfter(@, r.sent, [at |-> 1, kind |-> kind])]
    /\ UNCHANGED <<channelToDevice, nextDeviceId, mutexOwner, terminated, apiPc, apiArg,
                   pollPc, pollFrames, rxLeft, reader, notDm>>

\* the loop of ioctl's case SET_CONFIG over the first numOfParams entries of
\* configPtr
RECURSIVE setConfig(_, _, _)
setConfig(channel, configPtr, numOfParams) ==
    IF numOfParams = 0 THEN channel
    ELSE LET ch == setConfig(channel, configPtr, numOfParams - 1)
             p == configPtr[numOfParams]
         IN  IF p.Parameter = DATA_RATE THEN [ch EXCEPT !.dataRate = p.Value]
             ELSE IF p.Parameter = LOOPBACK THEN [ch EXCEPT !.loopback = p.Value # 0]
             ELSE ch

\* long DeviceManager::ioctl with ioctlId SET_CONFIG; input holds one
\* SCONFIG_LIST or none, its ConfigPtr one array or none
IoctlSetConfig(c, input) ==
    /\ ApiReady
    /\ IF c \notin DOMAIN channelToDevice
       THEN /\ dmCall' = Returned("ioctl", c, ERR_INVALID_CHANNEL_ID)
            /\ UNCHANGED devices
       ELSE IF input = <<>> \/ input[1].ConfigPtr = <<>>
       THEN /\ dmCall' = Returned("ioctl", c, ERR_NULL_PARAMETER)
            /\ UNCHANGED devices
       ELSE LET d == channelToDevice[c] IN
            /\ devices' = [devices EXCEPT ![d].channels[c] =
                              setConfig(@, input[1].ConfigPtr[1], input[1].NumOfParams)]
            /\ dmCall' = [Returned("ioctl", c, STATUS_NOERROR) EXCEPT
                             !.before = <<devices[d].channels[c]>>]
    /\ UNCHANGED <<channelToDevice, nextDeviceId, mutexOwner, terminated, apiPc, apiArg,
                   pollPc, pollFrames, rxLeft, reader, notDm>>

\* frames the adapter delivers: ids 0x7E8, 0x7E0 and 0x18DAF110, with and
\* without data
RxFrames ==
    {RxFrame, CANFrame(1, U32(2016), 0, <<1>>), CANFrame(1, U32(2016), 0, <<>>),
     CANFrame(1, <<6362, 61712>>, 1, <<1, 2>>)}

\* pollingThreadFunc: device->protocol->receiveMessages(100), with any of
\* RxFrames arriving
PollReceiveAny(d) ==
    /\ ~terminated
    /\ pollPc[d] = "recv"
    /\ \E frames \in SeqsUpTo(RxFrames, Min(1, rxLeft)) :
          /\ pollFrames' = [pollFrames EXCEPT ![d] = frames]
          /\ rxLeft' = rxLeft - Len(frames)
          /\ pollPc' = [pollPc EXCEPT ![d] = IF frames = <<>> THEN "check" ELSE "deliver"]
    /\ UNCHANGED <<devices, channelToDevice, nextDeviceId, mutexOwner, terminated, apiPc,
                   apiArg, dmCall, reader, notDm>>

\* mask and pattern messages: the id 0x7E0 on four bytes, the id and the first
\* data byte on five, the two leading id bytes on two with what the caller
\* left in the array behind them
IdFilter == <<FilterMsg(<<255, 255, 255, 255>>, 4), FilterMsg(<<0, 0, 7, 224>>, 4)>>
DataFilter == <<FilterMsg(<<255, 255, 255, 255, 255>>, 5), FilterMsg(<<0, 0, 7, 224, 1>>, 5)>>
ShortFilter == <<FilterMsg(<<255, 255, 255, 255>>, 2), FilterMsg(<<0, 0, 7, 224>>, 2)>>

\* filter type, mask and pattern of the calls that start a filter
FilterArgs ==
    {<<PASS_FILTER, IdFilter>>, <<PASS_FILTER, ShortFilter>>, <<BLOCK_FILTER, DataFilter>>,
     <<BLOCK_FILTER, ShortFilter>>}

\* messages of sizes startMsgFilter refuses
BadFilterPairs ==
    {<<FilterMsg(<<255, 255, 255, 255>>, 4), FilterMsg(<<0, 0, 7, 224>>, 3)>>,
     <<FilterMsg(<<255, 255, 255, 255>>, 0), FilterMsg(<<0, 0, 7, 224>>, 0)>>,
     <<FilterMsg(Repeat(255, 13), 13), FilterMsg(Repeat(0, 13), 13)>>}

ConfigLists ==
    {[NumOfParams |-> 1, ConfigPtr |-> <<<<[Parameter |-> LOOPBACK, Value |-> 1]>>>>],
     [NumOfParams |-> 2, ConfigPtr |-> <<<<[Parameter |-> LOOPBACK, Value |-> 0],
                                          [Parameter |-> 2, Value |-> 1]>>>>],
     [NumOfParams |-> 1, ConfigPtr |-> <<<<[Parameter |-> DATA_RATE, Value |-> 500000]>>>>],
     [NumOfParams |-> 1, ConfigPtr |-> <<>>]}

FilterTxInputs ==
    {<<TxMsg(0, 2024, 1)>>,
     <<TxMsg(0, 2016, 1), TxMsg(0, 2016, 0), TxMsg(0, 2024, 1)>>,
     <<TxMsg(CAN_29BIT_ID, 2016, 2), TxMsg(0, 2016, 2)>>}

\* device 1 with channel 2 as openDevice and connect leave them, the polling
\* thread of device 1 running and rx frames to come
FilterChannel(rx) ==
    /\ devices = (1 :> [NewDevice(<<65>>) EXCEPT
                           !.pollingThread = "joinable",
                           !.channels = (2 :> NewChannel(1, CAN, 0, 500000, 1))])
    /\ channelToDevice = (2 :> 1)
    /\ nextDeviceId = 3
    /\ mutexOwner = FREE
    /\ terminated = FALSE
    /\ apiPc = "idle"
    /\ apiArg = 0
    /\ pollPc = [d \in 1..MaxIds |-> IF d = 1 THEN "check" ELSE "none"]
    /\ pollFrames = [d \in 1..MaxIds |-> <<>>]
    /\ rxLeft = rx
    /\ reader = NoReader
    /\ dmCall = NoCall
    /\ IsotpPinned
    /\ CodecPinned
    /\ SessPinned

\* calls on the channel, no frames arriving
InitFilter == FilterChannel(0)

NextFilter ==
    \/ \E args \in FilterArgs, kind \in {"positive", "none"} :
          StartMsgFilter(2, args[1], <<args[2][1]>>, <<args[2][2]>>, TRUE, kind)
    \/ \E filterType \in {0, FLOW_CONTROL_FILTER} :
          StartMsgFilter(2, filterType, <<IdFilter[1]>>, <<IdFilter[2]>>, TRUE, "positive")
    \/ \E pair \in BadFilterPairs :
          StartMsgFilter(2, PASS_FILTER, <<pair[1]>>, <<pair[2]>>, TRUE, "positive")
    \/ \E c \in {2, 3}, mask, pattern, filterId \in {<<>>, <<IdFilter[1]>>} :
          /\ c = 3 \/ <<>> \in {mask, pattern, filterId}
          /\ StartMsgFilter(c, PASS_FILTER, mask, pattern, filterId # <<>>, "positive")
    \/ \E c \in {2, 3}, input \in {<<>>} \cup {<<l>> : l \in ConfigLists} :
          IoctlSetConfig(c, input)
    \/ \E msgs \in FilterTxInputs, fail \in {[at |-> 0, kind |-> "none"],
                                             [at |-> 1, kind |-> "none"]} :
          WriteMsgs(2, msgs, 1000, fail)

SpecFilter == InitFilter /\ [][NextFilter]_vars

\* the polling thread delivers to a channel whose filters are being set
InitFilterRx == FilterChannel(MaxRxFrames)

NextFilterRx ==
    \/ \E args \in FilterArgs :
          StartMsgFilter(2, args[1], <<args[2][1]>>, <<args[2][2]>>, TRUE, "positive")
    \/ PollCheck(1)
    \/ PollReceiveAny(1)
    \/ PollDeliver(1)

SpecFilterRx == InitFilterRx /\ [][NextFilterRx]_vars

(***************************************************************************)
(* A request after a fire-and-forget Send                                  *)
(***************************************************************************)
\* the adapter acknowledges a Send with Ok
SendAck == MkPDU(Ok, <<>>)

\* bool Protocol::sendMessages: the batch goes to the transport and the call
\* returns; on the wire it is marked as coming from no waiting caller
CallSendMessages(c) ==
    /\ pc[c] = "idle"
    /\ Cardinality({i \in DOMAIN wire : wire[i].from = 0}) < MaxWrites
    /\ wire' = Append(wire, [from |-> 0, bytes |-> serialize(PDU_sendBatch(1, <<<<1, 2>>>>))])
    /\ UNCHANGED <<sess, inbound, answered, reply, peerStream, streamPdus, splitReads, pc, chunk,
                   start, result, now, rxLog, appLog, parsedLog, fifoLog, polled, notSess>>

\* a ReceivedCompressed PDU: handle 1, id 0x7E8, extension 0, two bytes 01 02
\* as an LZ4 block of literals
CompressedPDU == MkPDU(ReceivedCompressed, <<1, 0, 0, 7, 232, 0, 0, 2, 32, 1, 2>>)

\* caller 1 sends batches and then asks for an arbitration, as writeMsgs does
\* for the batch that follows; the adapter acknowledges each Send and
\* answers the SetArbitration with Ok, with a negative PDU or not at all, and
\* it may deliver frames; the polling thread reads too
InitLate ==
    /\ \E asyncMode \in BOOLEAN : sess = NewSession(asyncMode)
    /\ \E r \in {<<>>, <<Response(1)>>, <<Negative>>} :
          reply = [c \in {0} \cup Callers |->
                      IF c = 0 THEN <<SendAck>> ELSE IF c = 1 THEN r ELSE <<>>]
    /\ \E pump \in {"idle", "off"} :
          pc = [t \in Threads |-> IF t = 0 THEN pump ELSE IF t = 1 THEN "idle" ELSE "off"]
    /\ streamPdus \in {<<>>, <<ReceivedPDU(2), CompressedPDU>>}
    /\ peerStream = Flatten(streamPdus)
    /\ splitReads = FALSE
    /\ inbound = <<>>
    /\ wire = <<>>
    /\ answered = 0
    /\ chunk = [t \in Threads |-> <<>>]
    /\ start = [c \in Callers |-> 0]
    /\ result = [c \in Callers |-> NoResult]
    /\ now = 0
    /\ rxLog = <<>>
    /\ appLog = <<>>
    /\ parsedLog = <<>>
    /\ fifoLog = <<>>
    /\ polled = <<>>
    /\ IsotpPinned
    /\ CodecPinned
    /\ DmPinned

NextLate ==
    \/ CallSendMessages(1)
    \/ CallSend(1)
    \/ CallWaitEnter(1)
    \/ CallReceive(1)
    \/ CallProcess(1)
    \/ CallCvWake(1)
    \/ PumpReceive
    \/ PumpProcess
    \/ PeerAnswer
    \/ PeerEmit
    \/ Tick

SpecLate == InitLate /\ [][NextLate]_vars

(***************************************************************************)
(* From the adapter's PDUs to the messages of the RX queue                 *)
(***************************************************************************)
\* a Received PDU: handle 1, the id, its extension, the data
ReceivedWith(id, extension, data) ==
    MkPDU(Received, <<1, id_byte(id, 0), id_byte(id, 1), id_byte(id, 2), id_byte(id, 3),
                      extension>> \o data)

\* what the adapter delivers: Received PDUs with ids 0x7E8 and 0x18DAF110 and
\* 0..2 data bytes, a ReceivedCompressed PDU, and a Received PDU cut short
RxPDUs ==
    {ReceivedWith(U32(2024), 0, <<>>), ReceivedWith(U32(2024), 0, <<17>>),
     ReceivedWith(U32(2024), 0, <<17, 34>>), ReceivedWith(<<6362, 61712>>, 1, <<17, 34>>),
     CompressedPDU, MkPDU(Received, <<1, 0, 0>>)}

\* Protocol::receiveMessages in the polling thread, on a session with an
\* empty receive buffer: the PDUs go through processReceivedData, the frame
\* queue is drained; each frame is tagged with the PDU it was made from
PollReceivePDUs(d) ==
    /\ ~terminated
    /\ pollPc[d] = "recv"
    /\ \E pdus \in SeqsUpTo(RxPDUs, rxLeft) :
          LET frames == processIfData(NewSession(FALSE), Flatten(pdus)).s.frameQueue IN
          /\ pollFrames' = [pollFrames EXCEPT ![d] =
                               [i \in DOMAIN frames |-> frames[i] @@ [pdu |-> pdus[i]]]]
          /\ rxLeft' = rxLeft - Len(pdus)
          /\ pollPc' = [pollPc EXCEPT ![d] = IF frames = <<>> THEN "check" ELSE "deliver"]
    /\ UNCHANGED <<devices, channelToDevice, nextDeviceId, mutexOwner, terminated, apiPc,
                   apiArg, dmCall, reader, notDm>>

InitRx == FilterChannel(MaxRxFrames)

NextRx ==
    \/ PollCheck(1)
    \/ PollReceivePDUs(1)
    \/ PollDeliver(1)

SpecRx == InitRx /\ [][NextRx]_vars

\* the exchange has run to its end: nothing is in flight any more
LinkQuiet == phase = "running" /\ c2r = <<>> /\ c2s = <<>>

\* C1: over a lossless link every payload of at most 4095 bytes, the empty
\* one included, in both addressing modes, ends with the receiver having
\* returned Process(payload) exactly once and with both transceivers idle.
C1_RoundTrip ==
    LinkQuiet =>
        /\ delivered = <<pdu>>
        /\ snd.state = "idle"
        /\ rcv.state = "idle"

\* the wire image the claim prescribes: 0x1F, tag, length as big-endian u16,
\* payload, and no trailer
WireImage(p) ==
    <<31, p.type, Len(p.payload) \div 256, Len(p.payload) % 256>> \o p.payload

\* C9: serialize(P) is exactly 0x1F, tag, big-endian u16 length, payload
\* (4 + |payload| bytes), and parsing it returns consumed = 4 + |payload|
\* with a PDU of the same tag and payload, in the J2534 codec and in the
\* library codec.
C9_WireRoundTrip ==
    /\ cdStage # "new" =>
          /\ cdWire = WireImage(cdPdu)
          /\ Len(cdWire) = 4 + Len(cdPdu.payload)
    /\ cdStage \in {"parsed", "reparsed"} =>
          /\ cdOut.consumed = 4 + Len(cdPdu.payload)
          /\ cdOut.pdu = cdPdu

\* witness of C9: a payload whose length needs both bytes of the length
\* field has been serialized and parsed back
C9_Witness ==
    /\ cdStage = "parsed"
    /\ Len(cdPdu.payload) = MAX_PDU_PAYLOAD
    /\ cdOut.consumed = 65539

\* the pump has read the whole stream and processed its last read
StreamConsumed == inbound = <<>> /\ pc[0] = "idle" /\ rxLog # <<>>

\* C10: a stream of serialized PDUs with garbage (bytes other than 0x1F,
\* headers with an invalid length) before, between and after them, read in
\* any chunking, is dispatched as exactly those PDUs in that order.
C10_Resync == StreamConsumed => parsedLog = streamPdus

\* the PDU a request of caller c accepts: the expected tag or a negative tag
IsCandidate(p, c) == p.type = ExpectedType(c) \/ isError(p)

Candidates(pdus, c) == {i \in DOMAIN pdus : IsCandidate(pdus[i], c)}

\* what the request of caller c has to return when the adapter answers it
\* with pdus: the first candidate, or timeout when there is none
AwaitedResult(pdus, c) ==
    IF Candidates(pdus, c) = {} THEN [status |-> "timeout", pdu |-> DefaultPDU]
    ELSE [status |-> "pdu",
          pdu |-> pdus[CHOOSE i \in Candidates(pdus, c) :
                          \A j \in Candidates(pdus, c) : i <= j]]

IsReceived(p) == p.type = Received

\* the frames of the Received PDUs of pdus, in order
FramesOf(pdus) ==
    LET rs == SelectSeq(pdus, IsReceived) IN [i \in DOMAIN rs |-> receivedFrame(rs[i])]

InFlight(c) == pc[c] \in {"sent", "recv", "relock", "cvwait"}

\* C2: with one caller and the polling thread pumping the transport, a
\* request whose answer holds a PDU of the expected tag returns that PDU,
\* and a request whose answer holds no expected and no negative PDU returns
\* timeout, in sync mode and in async mode.
C2_RequestResponse ==
    (pc[1] = "done" /\ pc[2] = "off") =>
        /\ Response(1) \in {reply[1][i] : i \in DOMAIN reply[1]} =>
               result[1] = [status |-> "pdu", pdu |-> Response(1)]
        /\ Candidates(reply[1], 1) = {} => result[1].status = "timeout"

\* C3: the bytes appended to the session's inbound buffer are in the order
\* in which the transport delivered them, also with two threads reading.
C3_AppendOrder == IsPrefix(appLog, rxLog)

\* C4: every Received PDU of the stream goes to the frame FIFO in stream
\* order, none is the response, and the request returns the first PDU of the
\* stream that has the expected tag or is negative.
C4_Multiplex ==
    /\ IsPrefix(fifoLog, FramesOf(reply[1]))
    /\ pc[1] = "done" =>
          /\ result[1] = AwaitedResult(reply[1], 1)
          /\ ~IsReceived(result[1].pdu)

\* C5: at most one request is in flight on a session, and a request returns
\* nothing but its own response.
C5_OneInFlight ==
    /\ Cardinality({c \in Callers : InFlight(c)}) <= 1
    /\ \A c \in Callers :
          (pc[c] = "done" /\ result[c].status = "pdu") => IsCandidate(result[c].pdu, c)

\* C6: a request that the adapter answers with a negative PDU fails, and the
\* device-manager call that made it returns an error and registers nothing
\* (connect() registers no channel).
C6_NegativeIsFailure ==
    (dmCall.op \in {"openDevice", "connect"} /\ dmCall.reply = "negative") =>
        /\ dmCall.status # STATUS_NOERROR
        /\ dmCall.id = 0

\* disconnect is inside pollingThread.join() with the manager's mutex_ held
DisconnectJoining == apiPc = "joining" /\ mutexOwner = API

\* C7: no state is reachable in which disconnect waits for the polling
\* thread while the polling thread waits for the manager mutex that
\* disconnect holds.
C7_NoDeadlock ==
    ~(/\ DisconnectJoining
      /\ pollPc[channelToDevice[apiArg]] \in {"check", "deliver"})

\* the last message of the maximal run that begins at message i: same CAN id
\* and extension throughout, and 1 + sum(1 + len) within MAX_BATCH_SIZE
RunEnd(msgs, i) ==
    LET size == [k \in DOMAIN msgs |-> 1 + (msgs[k].DataSize - 4)]
        fits(j) == /\ \A k \in i..j : BatchKey(msgs[k]) = BatchKey(msgs[i])
                   /\ 1 + Sum(size, i, j) <= MAX_BATCH_SIZE
        good == {j \in (i + 1)..Len(msgs) : fits(j)}
    IN  IF good = {} THEN i ELSE CHOOSE j \in good : \A k \in good : k <= j

\* the Send PDU of a run: the handle, then each frame behind its length
RunSend(handle, msgs, i, j) ==
    MkPDU(SendT, <<handle>> \o
          Concat([k \in 1..(j - i + 1) |->
                     <<msgs[i + k - 1].DataSize - 4>>
                         \o SubSeq(msgs[i + k - 1].Data, 5, msgs[i + k - 1].DataSize)],
                 1, j - i + 1))

\* what the claim puts on the wire for the messages from i on, last being
\* the arbitration programmed before (<<>> on a fresh channel)
RECURSIVE TxWire(_, _, _, _)
TxWire(handle, msgs, i, last) ==
    IF i > Len(msgs) THEN <<>>
    ELSE LET j == RunEnd(msgs, i)
             key == BatchKey(msgs[i])
             arb == Arbitration(key.canId, key.extension, U32(0), U32(0), 0)
         IN  (IF last = <<arb>> THEN <<>> ELSE <<PDU_setArbitration(handle, arb)>>)
                 \o <<RunSend(handle, msgs, i, j)>>
                 \o TxWire(handle, msgs, j + 1, <<arb>>)

\* a writeMsgs call on an existing channel whose messages all have the
\* channel's protocol ID and DataSize >= 4, every SetArbitration of which
\* the adapter acknowledges
TxCall ==
    /\ dmCall.op = "writeMsgs"
    /\ dmCall.before # <<>>
    /\ dmCall.fail.at = 0
    /\ \A k \in DOMAIN dmCall.msgs :
          /\ dmCall.msgs[k].ProtocolID = dmCall.before[1].protocolId
          /\ dmCall.msgs[k].DataSize >= 4

\* C8: writeMsgs partitions its messages into maximal runs of the same
\* (CAN id, extension) within 16384 payload bytes, and puts on the wire for
\* each run a SetArbitration iff the arbitration differs from the one last
\* programmed, followed by exactly one Send with the run's frames.
C8_TxBatching ==
    TxCall =>
        dmCall.wire = TxWire(dmCall.before[1].ecuHandle, dmCall.msgs, 1,
                             IF dmCall.before[1].hasTxArb
                             THEN <<dmCall.before[1].lastTxArb>> ELSE <<>>)

\* the frames the classic segmentation rule prescribes for payload d at width
\* 8: one First with the 12-bit length and d[0..5], then ceil((|d| - 6) / 7)
\* Consecutive frames, sequence nibbles 1, 2, ..., 15, 0, 1, ..., seven bytes
\* each, the last one padded with 0xAA
Segments(d) ==
    LET n == Len(d)
        cfs == ((n - 6) + 6) \div 7
        data(k) == SubSeq(d, 7 * k, Min(n, 7 * k + 6))
    IN  <<(<<16 + (n \div 256), n % 256>> \o SubSeq(d, 1, 6))>>
            \o [k \in 1..cfs |->
                   <<32 + (k % 16)>> \o data(k) \o [i \in 1..(7 - Len(data(k))) |-> 170]]

ClassicSender == phase = "running" /\ ~IsFD(snd) /\ snd.width = 8 /\ Len(pdu) > 7

\* C11: at width 8, for a payload of 8..4095 bytes, writePDU followed by
\* FlowControl CTS frames of any block size makes the sender emit exactly the
\* First frame and then the Consecutive frames of the segmentation rule, in
\* order, and nothing else; once the sender is idle again all of them are out.
C11_Segmentation ==
    ClassicSender =>
        /\ IsPrefix(c2r, Segments(pdu))
        /\ snd.state = "idle" => c2r = Segments(pdu)

\* 16 bytes 00..0F have gone out as 10 10 00 01 02 03 04 05,
\* 21 06 07 08 09 0A 0B 0C and 22 0D 0E 0F AA AA AA AA
C11_Witness ==
    /\ ClassicSender
    /\ pdu = Counting(16)
    /\ snd.state = "idle"
    /\ c2r = << <<16, 16, 0, 1, 2, 3, 4, 5>>,
                <<33, 6, 7, 8, 9, 10, 11, 12>>,
                <<34, 13, 14, 15, 170, 170, 170, 170>> >>

\* the number of Consecutive frames a payload of n bytes needs on transceiver
\* t: the First frame carries width - 2 bytes, each Consecutive width - 1
NeededCFs(t, n) == ((n - (Any_width(t) - 2)) + (Any_width(t) - 2)) \div (Any_width(t) - 1)

\* C12: a sender in state sending that is fed a FlowControl CTS with block
\* size N > 0 returns at most N frames, all of them Consecutive; it stays in
\* state sending if payload remains and is idle if the payload is exhausted;
\* fed anything but a CTS (a FlowControl WAIT) it emits nothing and keeps
\* sending.  c2s' holds the frame fed, c2r' \ c2r the frames returned.
C12_BlockSize ==
    [][(phase = "running" /\ snd.state = "sending" /\ c2s' # <<>>) =>
        LET fed == c2s'[1]
            emitted == SubSeq(c2r', Len(c2r) + 1, Len(c2r'))
            remains == Len(c2r') - 1 < NeededCFs(snd, Len(pdu))
        IN  IF fed[1] = 48
            THEN /\ fed[2] > 0 => Len(emitted) <= fed[2]
                 /\ \A i \in DOMAIN emitted : emitted[i][1] \div 16 = 2
                 /\ remains => snd'.state = "sending"
                 /\ ~remains => snd'.state = "idle"
            ELSE emitted = <<>> /\ snd'.state = "sending"]_vars

\* a CTS with block size 2 has been answered with two Consecutive frames and
\* the sender waits for the next FlowControl
C12_Witness ==
    /\ phase = "running"
    /\ c2s # <<>>
    /\ c2s[1][1] = 48
    /\ c2s[1][2] = 2
    /\ Len(c2r) = 3
    /\ snd.state = "sending"


\* C13: a transceiver in defensive mode never reports a protocol violation on
\* receive, whatever frame it is fed (the empty frame and a frame longer than
\* the configured width included) and whatever state it is in.
C13_DefensiveNeverViolates ==
    rcv.behavior = "defensive" => rcvAct # "protocolViolation"


\* the position of the last First frame in a log of frames, 0 if there is none
LastFirst(log) ==
    LET firsts == {i \in DOMAIN log : log[i] # <<>> /\ Frame_type(log[i]) = "first"} IN
    IF firsts = {} THEN 0 ELSE CHOOSE i \in firsts : \A j \in firsts : j <= i

RECURSIVE ConsecutiveData(_, _, _)
ConsecutiveData(log, from, w) ==
    IF from > Len(log) THEN <<>>
    ELSE (IF Len(log[from]) = w /\ Frame_type(log[from]) = "consecutive"
          THEN SubSeq(log[from], 2, w) ELSE <<>>)
             \o ConsecutiveData(log, from + 1, w)

\* what the frames from the last First on carry: the bytes of the First, then
\* those of the Consecutive frames behind it, cut at the length the First
\* announces
OwnPayload(log, w) ==
    LET i == LastFirst(log)
        all == SubSeq(log[i], 3, w) \o ConsecutiveData(log, i + 1, w)
    IN  SubSeq(all, 1, Frame_firstLength(log[i]))

\* C14: a defensive transceiver that is receiving and is fed a First frame
\* drops the partial reassembly; a well-formed First is accepted and answered
\* with a FlowControl ClearToSend, a malformed one leaves the transceiver
\* idle and empty; and the transfer that completes is delivered as Process
\* with the bytes of the frames from its own First on, none from before.
C14_StrayFirst ==
    [][(/\ ~IsFD(rcv)
        /\ rcv.behavior = "defensive"
        /\ Len(c2r') = Len(c2r) + 1) =>
        LET w == rcv.width
            fed == c2r'[Len(c2r')]
            stray == /\ rcv.state = "receiving"
                     /\ fed # <<>>
                     /\ Len(fed) <= w
                     /\ Frame_type(fed) = "first"
        IN  /\ (stray /\ Len(fed) = w /\ Frame_firstLength(fed) >= 8) =>
                   /\ rcv'.state = "receiving"
                   /\ rcv'.receivingPayload = SubSeq(fed, 3, w)
                   /\ rcvAct' = "writeFrames"
                   /\ c2s' = Append(c2s, Frame_flowControl(0, rcv.blockSize,
                                                           rcv.rxSeparationTime, w))
            /\ (stray /\ ~(Len(fed) = w /\ Frame_firstLength(fed) >= 8)) =>
                   /\ rcv'.state = "idle"
                   /\ rcv'.receivingPayload = <<>>
                   /\ rcvAct' = "waitForMore"
                   /\ c2s' = c2s
            /\ (rcvAct' = "process" /\ Frame_type(fed) = "consecutive") =>
                   /\ LastFirst(c2r') > 0
                   /\ delivered' = Append(delivered, OwnPayload(c2r', w))]_vars

\* the First of transfer B arrives while transfer A is being received, and B
\* is delivered
C14_Witness ==
    /\ ~IsFD(rcv)
    /\ rcv.behavior = "defensive"
    /\ rcv.width = 8
    /\ c2r = <<FramesOfTransfer(TransferA(8), 8)[1],
               FramesOfTransfer(TransferB(8), 8)[1],
               FramesOfTransfer(TransferB(8), 8)[2]>>
    /\ delivered = <<TransferB(8)>>


\* the frame lengths CAN-FD can carry
CANFDLengths == (1..8) \cup {12, 16, 20, 24, 32, 48, 64}

SmallestCANFDLength(n) ==
    CHOOSE l \in CANFDLengths : l >= n /\ \A m \in CANFDLengths : m >= n => l <= m

\* the one frame the claim describes for a payload of 1..62 bytes
ExpectedSingleFD(d) ==
    LET header == IF Len(d) <= 7 THEN <<Len(d)>> ELSE <<0, Len(d)>>
        length == SmallestCANFDLength(Len(header) + Len(d))
    IN  header \o d \o [i \in 1..(length - Len(header) - Len(d)) |-> 170]

\* C17: an FD transceiver in standard addressing with maximum frame width 64
\* sends a payload of 1..62 bytes as one frame and stays idle; the frame
\* starts with the PCI byte n for n <= 7 and with 00 n for n >= 8, has the
\* smallest CAN-FD length that holds header and payload, and is padded with
\* 0xAA.
C17_SingleFrameFD ==
    (/\ IsFD(snd)
     /\ snd.mode = "standard"
     /\ snd.maxFrameWidth = 64
     /\ Len(pdu) \in 1..62
     /\ phase = "running") =>
        /\ c2r = <<ExpectedSingleFD(pdu)>>
        /\ snd.state = "idle"

\* 20 bytes leave in a 24-byte frame 00 14 <20 bytes> AA AA
C17_Witness ==
    /\ IsFD(snd)
    /\ snd.mode = "standard"
    /\ snd.maxFrameWidth = 64
    /\ Len(pdu) = 20
    /\ Len(c2r) = 1
    /\ Len(c2r[1]) = 24
    /\ SubSeq(c2r[1], 1, 2) = <<0, 20>>
    /\ SubSeq(c2r[1], 3, 22) = pdu
    /\ SubSeq(c2r[1], 23, 24) = <<170, 170>>
    /\ snd.state = "idle"


\* C18: an FD transceiver answers every inbound frame whose length is not a
\* CAN-FD length with a protocol violation, in every state and in both
\* behaviours.
C18_InboundLength ==
    (IsFD(rcv) /\ c2r # <<>> /\ Len(c2r[Len(c2r)]) \notin CANFDLengths) =>
        rcvAct = "protocolViolation"

\* the length on the bus: in extended addressing the address byte travels in
\* front of the bytes the transceiver is handed
BusLength(t, frame) == IF t.mode = "extended" THEN Len(frame) + 1 ELSE Len(frame)

\* C18 (amended): an FD transceiver answers every inbound frame whose length,
\* counted with the address byte in extended addressing, is not a CAN-FD
\* length with a protocol violation, in every state and in both behaviours.
C18_InboundBusLength ==
    [][(IsFD(rcv) /\ Len(c2r') = Len(c2r) + 1
            /\ BusLength(rcv, c2r'[Len(c2r')]) \notin CANFDLengths) =>
        /\ rcvAct' = "protocolViolation"
        /\ rcv' = rcv
        /\ c2s' = c2s
        /\ delivered' = delivered]_vars

\* a 12-byte frame reaches an extended-mode transceiver that is receiving
C18_Witness ==
    /\ IsFD(rcv)
    /\ rcv.mode = "extended"
    /\ rcv.state = "receiving"
    /\ Len(c2r) = 2
    /\ Len(c2r[2]) = 12
    /\ rcvAct = "protocolViolation"


\* the payload of a KWP frame: what stands between the header and the checksum
KwpPayloadOf(frame) == SubSeq(frame, 4, Len(frame) - 1)

\* the frames of the transfer a step completes: those fed since the last
\* Process or ProtocolViolation, the one fed in this step included
CompletedTransfer ==
    IF Len(c2r') > Len(c2r) THEN Append(c2s, c2r'[Len(c2r')]) ELSE c2s

\* C15: in KWP mode the 0x01 at payload index 2 of the first frame leaves the
\* merged payload exactly if the second frame has 0x02 at payload index 2, and
\* then service, PID and sequence byte of the second frame are stripped too;
\* a single frame [svc, pid, 0x01, ..] that is finalized keeps its 0x01.
C15_RetroactiveSequencing ==
    [][(rcv.mode = "kwp" /\ Len(delivered') = Len(delivered) + 1) =>
        LET cur == CompletedTransfer
            p1 == KwpPayloadOf(cur[1])
            p2 == KwpPayloadOf(cur[2])
            merged == delivered'[Len(delivered')]
        IN  /\ (Len(cur) = 1 /\ Len(p1) >= 3 /\ p1[3] = 1) => merged = p1
            /\ (Len(cur) = 2 /\ Len(p1) >= 3 /\ p1[3] = 1 /\ Len(p2) >= 3) =>
                   merged = IF p2[3] = 2
                            THEN SubSeq(p1, 1, 2) \o SubSeq(p1, 4, Len(p1))
                                     \o SubSeq(p2, 4, Len(p2))
                            ELSE p1 \o SubSeq(p2, 3, Len(p2))]_vars

\* [svc,pid,01,A,B,C] and [svc,pid,02,D,E] have merged to [svc,pid,A,B,C,D,E],
\* and [svc,pid,01,A,B] alone has been finalized to itself
C15_Witness ==
    /\ rcv.mode = "kwp"
    /\ c2r = <<makeKwpFrame(241, 16, <<97, 5, 1, 161, 162, 163>>, 128),
               makeKwpFrame(241, 16, <<97, 5, 2, 177, 178>>, 128),
               makeKwpFrame(241, 16, <<97, 5, 1, 209, 210>>, 128)>>
    /\ delivered = <<<<97, 5, 161, 162, 163, 177, 178>>, <<97, 5, 1, 209, 210>>>>

\* the 8-bit additive sum of all bytes but the last
AdditiveSum(frame) == Sum(frame, 1, Len(frame) - 1) % 256

\* the data bytes of a frame, or of a payload, that no other frame of
\* KLineFrames carries
MarkerBytes(bytes) == {bytes[i] : i \in DOMAIN bytes} \cap (160..240)

\* C16: feed() of a frame whose last byte is not the additive sum of the bytes
\* before it returns ProtocolViolation and leaves the transceiver as it was
\* constructed, in every state; a later Process holds data bytes of frames fed
\* after the bad frame only.
C16_ChecksumFailure ==
    [][/\ (/\ Len(c2r') = Len(c2r) + 1
           /\ c2r'[Len(c2r')] # <<>>
           /\ c2r'[Len(c2r')][Len(c2r'[Len(c2r')])] # AdditiveSum(c2r'[Len(c2r')])) =>
               /\ rcvAct' = "protocolViolation"
               /\ rcv' = KLine_Transceiver(rcv.expectedTarget, rcv.expectedSource,
                                           rcv.expectedLength, rcv.mode)
               /\ delivered' = delivered
       /\ Len(delivered') = Len(delivered) + 1 =>
               MarkerBytes(delivered'[Len(delivered')])
                   \subseteq UNION {MarkerBytes(KwpPayloadOf(CompletedTransfer[i])) :
                                       i \in DOMAIN CompletedTransfer}]_vars

\* a frame with a bad checksum arrived in the middle of a transfer, and the
\* frame after it was delivered alone
C16_Witness ==
    /\ c2r = <<makeKwpFrame(241, 16, <<97, 5, 1, 161, 162, 163>>, 128),
               BadChecksum(makeKwpFrame(241, 16, <<97, 5, 2, 177, 178>>, 128)),
               makeKwpFrame(241, 16, <<97, 5, 1, 209, 210>>, 128)>>
    /\ delivered = <<<<97, 5, 1, 209, 210>>>>
    /\ rcv.mode = "kwp"


\* the six payload bytes the claim describes for the arguments kept in cdOut
ExpectedOpenChannelPayload ==
    <<cdOut.protocol,
      cdOut.bitrate[1] \div 256, cdOut.bitrate[1] % 256,
      cdOut.bitrate[2] \div 256, cdOut.bitrate[2] % 256,
      cdOut.rx * 16 + cdOut.tx>>

\* C19: in both codecs openChannel(protocol, bitrate, rxCode, txCode) has tag
\* 0x30 and the six payload bytes protocol, bitrate (big-endian u32) and
\* (rxCode << 4) | txCode, so that it serializes to 1F 30 00 06 and these
\* bytes; the library accessors read the given values back.
C19_OpenChannel ==
    /\ cdStage \in {"built", "read"} =>
          /\ cdPdu.type = 48
          /\ cdPdu.payload = ExpectedOpenChannelPayload
          /\ cdWire = <<31, 48, 0, 6>> \o ExpectedOpenChannelPayload
    /\ cdStage = "read" =>
          /\ cdOut.readProtocol = cdOut.protocol
          /\ cdOut.readBitrate = cdOut.bitrate
          /\ cdOut.readSeparationTimes =
                 <<microsecondsFromSeparationTimeCode(cdOut.rx),
                   microsecondsFromSeparationTimeCode(cdOut.tx)>>


\* each device holds at most one channel
OneChannelPerDevice ==
    \A d \in DOMAIN devices : Cardinality(DOMAIN devices[d].channels) <= 1

\* a step in which a connect call on device dmCall'.arg returns
ConnectReturns ==
    /\ apiPc = "idle"
    /\ apiPc' = "idle"
    /\ dmCall'.op = "connect"
    /\ dmCall'.arg \in DOMAIN devices
    /\ pollFrames' = pollFrames
    /\ rxLeft' = rxLeft
    /\ DOMAIN devices' = DOMAIN devices
    /\ \/ pollPc' = pollPc
       \/ DOMAIN devices'[dmCall'.arg].channels # DOMAIN devices[dmCall'.arg].channels

\* connect on a device that has a channel is refused, sends nothing and leaves
\* the registry alone; on a device without a channel it is not refused for
\* a channel in use
ConnectWhileInUse ==
    ConnectReturns =>
        IF DOMAIN devices[dmCall'.arg].channels # {}
        THEN /\ dmCall'.status = ERR_CHANNEL_IN_USE
             /\ dmCall'.wire = <<>>
             /\ devices' = devices
             /\ channelToDevice' = channelToDevice
             /\ nextDeviceId' = nextDeviceId
        ELSE dmCall'.status # ERR_CHANNEL_IN_USE

\* C20: each device holds at most one channel in every reachable state;
\* connect on a device that has a channel returns ERR_CHANNEL_IN_USE, sends
\* nothing and changes nothing in the registry; and a disconnect of the
\* channel returns with the channel gone, so that a new connect on the device
\* is not refused.
C20_OneChannelPerDevice ==
    /\ []OneChannelPerDevice
    /\ [][ConnectWhileInUse]_vars
    /\ (apiPc = "joining") ~> (/\ apiPc = "idle"
                               /\ dmCall.op = "disconnect"
                               /\ dmCall.status = STATUS_NOERROR)

\* the two parts of C20 that speak of connect alone
C20_ConnectRefused == []OneChannelPerDevice /\ [][ConnectWhileInUse]_vars

\* a connect was refused on a device that holds a channel
C20_ConnectRefusedWitness ==
    /\ dmCall.op = "connect"
    /\ dmCall.status = ERR_CHANNEL_IN_USE
    /\ dmCall.arg \in DOMAIN devices
    /\ DOMAIN devices[dmCall.arg].channels # {}

\* byte i (from 0) of a frame as a filter sees it: the CAN id, most
\* significant byte first, then the payload
FrameByte(can_id, data, i) == IF i < 4 THEN id_byte(can_id, i) ELSE data[i - 3]

\* mask and pattern agree with the frame on every byte they cover
BytewiseMatch(f, can_id, data) ==
    \A i \in 0..(Len(f.maskBytes) - 1) :
        /\ i < 4 + Len(data)
        /\ BitAnd(FrameByte(can_id, data, i), f.maskBytes[i + 1], 8)
              = BitAnd(f.patternBytes[i + 1], f.maskBytes[i + 1], 8)

\* the 32-bit mask and pattern agree with the CAN id
WordMatch(f, can_id) == And32(can_id, f.mask) = And32(f.pattern, f.mask)

\* a filter of one of the byte lengths in lengths is compared byte by byte,
\* every other filter on the CAN id
FilterMatches(f, can_id, data, lengths) ==
    IF Len(f.maskBytes) = Len(f.patternBytes) /\ Len(f.maskBytes) \in lengths
    THEN BytewiseMatch(f, can_id, data)
    ELSE WordMatch(f, can_id)

\* no pass filter is active or one of them matches, and no active block
\* filter matches
PassesFilters(filters, can_id, data, lengths) ==
    LET pass == {f \in filters : f.active /\ f.type = PASS_FILTER}
        block == {f \in filters : f.active /\ f.type = BLOCK_FILTER}
    IN  /\ pass = {} \/ \E f \in pass : FilterMatches(f, can_id, data, lengths)
        /\ \A f \in block : ~FilterMatches(f, can_id, data, lengths)

\* the loopback copy of a transmitted message
LoopbackCopy(msg) ==
    [msg EXCEPT !.RxStatus = IF HasFlag(msg.TxFlags, CAN_29BIT_ID)
                             THEN TX_MSG_TYPE + CAN_29BIT_ID ELSE TX_MSG_TYPE]

\* the copies of the first n messages of msgs that a channel owes its RX queue
LoopbackCopies(channel, msgs, n) ==
    SelectSeq([j \in 1..n |-> LoopbackCopy(msgs[j])],
              LAMBDA m : /\ channel.loopback
                         /\ PassesFilters(channel.filters, readUint32BE(m.Data),
                                          SubSeq(m.Data, 5, m.DataSize), 1..12))

\* writeMsgs has returned from a call on channel 2
WriteReturned == dmCall.op = "writeMsgs" /\ dmCall.before # <<>>

\* C21: after writeMsgs the RX queue of the channel is the queue before the
\* call followed by one copy of each message sent that passes the active
\* filters, in message order, with TX_MSG_TYPE set and CAN_29BIT_ID as in
\* TxFlags, if the loopback flag is set; by nothing if it is not set.
C21_Loopback ==
    WriteReturned =>
        devices[1].channels[2].rxQueue
            = dmCall.before[1].rxQueue
                  \o LoopbackCopies(dmCall.before[1], dmCall.msgs, dmCall.numMsgs)

\* a call that sent three messages on a channel with loopback and a filter,
\* which passed some of them and rejected others
C21_Witness ==
    /\ WriteReturned
    /\ dmCall.before[1].loopback
    /\ dmCall.before[1].filters # {}
    /\ dmCall.numMsgs = 3
    /\ Len(devices[1].channels[2].rxQueue) \in {1, 2}
    /\ devices[1].channels[2].rxQueue[1].RxStatus = TX_MSG_TYPE

\* the polling thread of device 1 hands the frames it received to channel 2
DeliverStep == pollPc[1] = "deliver" /\ pollPc'[1] = "check"

\* the frames of frames that the filters of channel pass
PassedFrames(channel, frames, lengths) ==
    SelectSeq(frames, LAMBDA f : PassesFilters(channel.filters, f.id, f.data, lengths))

\* the polling thread queues the frames that pass the filters and no other
FilteredDelivery(lengths) ==
    DeliverStep =>
        Len(devices'[1].channels[2].rxQueue)
            = Len(devices[1].channels[2].rxQueue)
                  + Len(PassedFrames(devices[1].channels[2], pollFrames[1], lengths))

\* C22: a frame is delivered iff no pass filter is active or an active pass
\* filter matches, and no active block filter matches; a filter with mask and
\* pattern of one length of 4..12 bytes matches byte by byte on CAN id and
\* payload, every other filter on the 32-bit CAN id.
C22_FilterEvaluation == [][FilteredDelivery(4..12)]_vars

\* C22 as the code has it: mask and pattern of one length of 1..12 bytes are
\* compared byte by byte on CAN id and payload, every other filter on the
\* 32-bit CAN id.
C22_FilterEvaluationByLength == [][FilteredDelivery(1..12)]_vars

\* with a pass filter and a block filter active, the polling thread has
\* delivered a frame and dropped another
C22_Witness ==
    /\ \E f \in devices[1].channels[2].filters : f.active /\ f.type = PASS_FILTER
    /\ \E f \in devices[1].channels[2].filters : f.active /\ f.type = BLOCK_FILTER
    /\ pollFrames[1] = <<>>
    /\ Len(devices[1].channels[2].rxQueue) >= 1
    /\ Len(devices[1].channels[2].rxQueue) + rxLeft < MaxRxFrames

\* the payload of the SetArbitration PDU that programs arb into the adapter
\* for a channel
Programmed(channel, arb) == <<PDU_setArbitration(channel.ecuHandle, arb).payload>>

\* lastTxArb of channel 2, if set, is what the adapter holds
LastTxArbHeld ==
    devices[1].channels[2].hasTxArb =>
        dmCall.adapterArb = Programmed(devices[1].channels[2], devices[1].channels[2].lastTxArb)

\* a writeMsgs call on channel 2 that sends its first batch without a
\* SetArbitration finds the arbitration of that batch in the adapter
SuppressedSound ==
    (/\ dmCall'.op = "writeMsgs"
     /\ dmCall'.writes = dmCall.writes + 1
     /\ dmCall'.wire # <<>>
     /\ dmCall'.wire[1].type = SendT)
        => dmCall.adapterArb
               = Programmed(devices[1].channels[2],
                            Arbitration(BatchKey(dmCall'.msgs[1]).canId,
                                        BatchKey(dmCall'.msgs[1]).extension,
                                        U32(0), U32(0), 0))

\* C23: whenever hasTxArb is set, lastTxArb is the arbitration programmed
\* into the adapter last, by writeMsgs or by startMsgFilter, so a batch sent
\* without SetArbitration is never sent while the adapter holds another
\* arbitration.
C23_SuppressedArbitration == []LastTxArbHeld /\ [][SuppressedSound]_vars

\* C24: the Ok that acknowledges a fire-and-forget Send, like a response that
\* comes after its request has timed out, is dropped and never returned as
\* the response of a later request: a request that returns a PDU returns
\* one the adapter sent in answer to it.
C24_LateResponseDiscarded ==
    \A c \in Callers :
        result[c].status = "pdu" => \E i \in DOMAIN reply[c] : reply[c][i] = result[c].pdu

\* thread t hands the bytes it has read to processReceivedData
ProcessStep(t) == pc[t] \in {"relock", "got"} /\ pc'[t] # pc[t]

\* the three rules, applied to one PDU: st holds the expected tag, the
\* response slot and the number of frames pushed
Dispatch(st, p) ==
    IF p.type \in {Received, ReceivedCompressed} THEN [st EXCEPT !.pushed = @ + 1]
    ELSE IF st.expected # <<>> /\ (p.type = st.expected[1] \/ p.type \in 224..239)
    THEN [st EXCEPT !.slot = <<p>>]
    ELSE st

RECURSIVE DispatchAll(_, _)
DispatchAll(st, pdus) ==
    IF pdus = <<>> THEN st ELSE DispatchAll(Dispatch(st, Head(pdus)), Tail(pdus))

\* the PDUs parsed in a step, dispatched from the state before the step
Dispatched ==
    DispatchAll([expected |-> sess.expectedResponse, slot |-> sess.capturedResponse,
                 pushed |-> 0],
                SubSeq(parsedLog', Len(parsedLog) + 1, Len(parsedLog')))

\* what a step of processReceivedData leaves: the frames pushed, and the slot
\* as the polling thread leaves it or as the waiting caller takes it
DispatchedAsClassified ==
    /\ \A t \in Threads : ProcessStep(t) => Len(fifoLog') = Len(fifoLog) + Dispatched.pushed
    /\ ProcessStep(0) =>
          /\ sess'.capturedResponse = Dispatched.slot
          /\ sess'.expectedResponse = sess.expectedResponse
    /\ \A c \in Callers : ProcessStep(c) =>
          IF Dispatched.slot # <<>>
          THEN result'[c] = [status |-> "pdu", pdu |-> Dispatched.slot[1]]
          ELSE result'[c].status # "pdu"

\* C25: every parsed PDU is handled by the first rule that applies: Received
\* and ReceivedCompressed push one frame and leave the response slot alone;
\* else, with a request pending, the expected tag or a tag in 0xE0..0xEF
\* fills the slot; else the PDU is dropped. With no request pending a
\* negative PDU is dropped.
C25_DispatchClassification == [][DispatchedAsClassified]_vars

\* frames were pushed, a PDU was returned to the caller, and the
\* acknowledgement of the Send was parsed as well
C25_Witness ==
    /\ Len(fifoLog) = 2
    /\ result[1].status = "pdu"
    /\ Len(parsedLog) >= 4

\* a negative PDU was parsed and dropped, the request ran into its timeout
C25_NegativeDropped ==
    /\ \E i \in DOMAIN parsedLog : parsedLog[i] = Negative
    /\ result[1].status = "timeout"

\* the data of an LZ4 block that consists of literals only
Lz4Literals(block) == SubSeq(block, 2, 1 + block[1] \div 16)

\* the data bytes a Received or ReceivedCompressed PDU carries
FrameData(p) ==
    IF p.type = Received THEN SubSeq(p.payload, 7, Len(p.payload))
    ELSE Lz4Literals(SubSeq(p.payload, 9, Len(p.payload)))

\* a frame made from a PDU of at least 6 payload bytes carries its handle,
\* CAN id, extension and data
FrameOfPDU(f) ==
    Len(f.pdu.payload) >= 6 =>
        /\ f.channel = f.pdu.payload[1]
        /\ f.id = readUint32BE(SubSeq(f.pdu.payload, 2, 5))
        /\ f.extension = f.pdu.payload[6]
        /\ f.data = FrameData(f.pdu)

FramesCarryPDUs == \A i \in DOMAIN pollFrames[1] : FrameOfPDU(pollFrames[1][i])

\* the polling thread queues one message per frame, the CAN id of the PDU in
\* its first four data bytes
MessagesCarryIds ==
    DeliverStep =>
        /\ Len(devices'[1].channels[2].rxQueue)
              = Len(devices[1].channels[2].rxQueue) + Len(pollFrames[1])
        /\ \A i \in DOMAIN pollFrames[1] :
              Len(pollFrames[1][i].pdu.payload) >= 6 =>
                  SubSeq(devices'[1].channels[2].rxQueue[
                             Len(devices[1].channels[2].rxQueue) + i].Data, 1, 4)
                      = SubSeq(pollFrames[1][i].pdu.payload, 2, 5)

\* C26: for every Received and ReceivedCompressed PDU of at least 6 payload
\* bytes the frame pushed to the FIFO carries the channel handle, the CAN id,
\* the extension and the (decompressed) data of the PDU, and the message the
\* polling thread builds from it has that CAN id in its first four data bytes.
C26_FrameContent == []FramesCarryPDUs /\ [][MessagesCarryIds]_vars

\* the payloads of the frames of the transfer that is being received
TransferPayloads == [i \in DOMAIN c2s |-> KwpPayloadOf(c2s[i])]

\* the first frame of the transfer has 0x01 at payload index 2, the second
\* frame has not 0x02 there
SecondFrameDeclined ==
    /\ rcv.mode = "kwp"
    /\ Len(c2s) >= 2
    /\ Len(TransferPayloads[1]) >= 3
    /\ TransferPayloads[1][3] = 1
    /\ Len(TransferPayloads[2]) >= 3
    /\ TransferPayloads[2][3] # 2

\* service and PID, then the bytes from payload index 2 on of every frame
MergedAsData(payloads) ==
    <<payloads[1][1], payloads[1][2]>>
        \o Concat([i \in DOMAIN payloads |-> SubSeq(payloads[i], 3, Len(payloads[i]))],
                  1, Len(payloads))

\* C27 (KWP): if the first frame has 0x01 at payload index 2 and the second
\* frame has not 0x02 there, the transceiver is not in sequence mode at any
\* later frame of the transfer, and the buffer holds the 0x01 and the bytes
\* from index 2 on of every later frame as data.
C27_SequenceOnSecondFrameOnly ==
    SecondFrameDeclined =>
        /\ ~rcv.sequenceMode
        /\ rcv.buffer = MergedAsData(TransferPayloads)

\* the transceiver is in sequence mode and is fed a frame that passes the
\* checks of size, checksum, addresses and base service and PID
SequencedFeed ==
    /\ rcv.mode = "kwp"
    /\ rcv.sequenceMode
    /\ Len(c2r') = Len(c2r) + 1
    /\ LET frame == c2r'[Len(c2r')] IN
          /\ frame # <<>>
          /\ KLine_sizeValid(frame, "kwp")
          /\ KLine_checksumValid(frame)
          /\ (rcv.expectedTarget # 0 => frame[2] = rcv.expectedTarget)
          /\ (rcv.expectedSource # 0 => frame[3] = rcv.expectedSource)
          /\ (Len(KwpPayloadOf(frame)) >= 2 =>
                 /\ KwpPayloadOf(frame)[1] = rcv.baseService
                 /\ KwpPayloadOf(frame)[2] = rcv.basePid)

\* the frame is merged: the bytes behind the sequence number join the buffer
\* (which a Process hands out) and the next number is expected
MergedInSequence(payload) ==
    /\ rcvAct' # "protocolViolation"
    /\ IF rcvAct' = "process"
       THEN delivered'[Len(delivered')] = rcv.buffer \o SubSeq(payload, 4, Len(payload))
       ELSE /\ rcv'.buffer = rcv.buffer \o SubSeq(payload, 4, Len(payload))
            /\ rcv'.expectedSeq = (rcv.expectedSeq + 1) % 256

\* the frame is refused and nothing of the transfer is kept
RefusedInSequence ==
    /\ rcvAct' = "protocolViolation"
    /\ rcv'.buffer = <<>>
    /\ delivered' = delivered

\* a frame of the payload lengths in lengths is merged if it carries the
\* expected sequence number at payload index 2, and refused if not
SequenceChecked(lengths) ==
    LET payload == KwpPayloadOf(c2r'[Len(c2r')]) IN
    (SequencedFeed /\ Len(payload) \in lengths) =>
        IF Len(payload) >= 3 /\ payload[3] = rcv.expectedSeq
        THEN MergedInSequence(payload)
        ELSE RefusedInSequence

\* a frame too short to hold a sequence number is accepted, adds nothing and
\* leaves the expected sequence number
ShortFrameAccepted ==
    (SequencedFeed /\ Len(KwpPayloadOf(c2r'[Len(c2r')])) < 3) =>
        /\ rcvAct' # "protocolViolation"
        /\ (rcvAct' = "waitForMore" =>
               /\ rcv'.buffer = rcv.buffer
               /\ rcv'.expectedSeq = rcv.expectedSeq)

\* the frames of the transfer in progress that can have switched sequence mode
\* on: those after the first with 0x02 at payload index 2
EnteringFrames ==
    {i \in DOMAIN c2s : /\ i >= 2
                        /\ Len(KwpPayloadOf(c2s[i])) >= 3
                        /\ KwpPayloadOf(c2s[i])[3] = 2}

\* the expected number is 3 after the frame that switched sequence mode on and
\* one more for each later frame that holds a sequence number
SequenceNumbering ==
    (rcv.mode = "kwp" /\ rcv.sequenceMode) =>
        /\ EnteringFrames # {}
        /\ LET entering == CHOOSE i \in EnteringFrames : \A k \in EnteringFrames : i <= k
           IN  rcv.expectedSeq =
                   (3 + Cardinality({i \in DOMAIN c2s :
                                        /\ i > entering
                                        /\ Len(KwpPayloadOf(c2s[i])) >= 3})) % 256

\* C28 (KWP): once sequence mode is entered, every further frame of the
\* transfer, of any payload length, must carry the expected sequence number
\* at payload index 2 (3 for the third frame, one more for each frame, mod
\* 256); a frame that does not is answered with ProtocolViolation and is
\* not merged.
C28_SequenceChecking == []SequenceNumbering /\ [][SequenceChecked(0..15)]_vars

\* C28 as the code has it: the sequence number is checked on the frames whose
\* payload has at least 3 bytes; a shorter frame is accepted and adds nothing.
C28_SequenceCheckingFromThreeBytes ==
    []SequenceNumbering /\ [][SequenceChecked(3..15) /\ ShortFrameAccepted]_vars

\* in sequence mode a third frame with the number 3 has been merged
C28_Witness ==
    /\ rcv.mode = "kwp"
    /\ rcv.sequenceMode
    /\ rcv.expectedSeq = 4
    /\ Len(c2s) = 3

\* the merge buffer after a step: what a Process hands out, or what is kept
MergeBufferAfter ==
    IF Len(delivered') = Len(delivered) + 1
    THEN delivered'[Len(delivered')]
    ELSE rcv'.buffer

\* no frame of the transfer switches sequence mode on
WithoutSequence(payloads) ==
    ~(/\ Len(payloads[1]) >= 3
      /\ payloads[1][3] = 1
      /\ \E i \in 2..Len(payloads) : Len(payloads[i]) >= 3 /\ payloads[i][3] = 2)

\* feed() with an expected length, for a frame that is not refused: Process
\* exactly if the merge buffer has reached the length, and the buffer is all
\* that the frames of the transfer have brought
FeedWithExpectedLength ==
    (/\ Len(c2r') = Len(c2r) + 1
     /\ rcv.expectedLength > 0
     /\ rcvAct' # "protocolViolation") =>
        LET payloads == [i \in DOMAIN CompletedTransfer |->
                             KwpPayloadOf(CompletedTransfer[i])]
        IN  /\ rcvAct' = IF Len(MergeBufferAfter) >= rcv.expectedLength
                         THEN "process" ELSE "waitForMore"
            /\ (rcvAct' = "process") = (Len(delivered') = Len(delivered) + 1)
            /\ (rcv.mode = "iso9141" =>
                   MergeBufferAfter = Concat(payloads, 1, Len(payloads)))
            /\ ((rcv.mode = "kwp" /\ WithoutSequence(payloads)) =>
                   MergeBufferAfter = MergedAsData(payloads))

\* a Process, from feed() or from finalize(), leaves the transceiver as it was
\* constructed
ProcessResets ==
    Len(delivered') = Len(delivered) + 1 =>
        /\ rcvAct' = "process"
        /\ rcv' = KLine_Transceiver(rcv.expectedTarget, rcv.expectedSource,
                                    rcv.expectedLength, rcv.mode)
        /\ (c2r' = c2r => delivered'[Len(delivered')] = rcv.buffer)

\* finalize() on an empty buffer
FinalizeEmpty ==
    (c2r' = c2r /\ rcv.buffer = <<>>) =>
        /\ rcvAct' = "waitForMore"
        /\ rcv' = rcv
        /\ delivered' = delivered

\* with an expected length, a buffer that has reached it has been handed out
BelowExpectedLength ==
    rcv.expectedLength > 0 => Len(rcv.buffer) < rcv.expectedLength

\* C29 (both modes): with an expected length L > 0, feed() of a frame that
\* is not refused returns WaitForMore while the merge buffer holds fewer than
\* L bytes and Process with the whole merge buffer at the first frame after
\* which it holds at least L; after every Process the transceiver is in its
\* initial state with an empty buffer; finalize() on an empty buffer returns
\* WaitForMore and changes nothing.
C29_Finalisation ==
    /\ []BelowExpectedLength
    /\ [][FeedWithExpectedLength /\ ProcessResets /\ FinalizeEmpty]_vars

\* a transfer of expected length was handed out at its second frame, which
\* filled the buffer to the expected length exactly
C29_Witness ==
    /\ rcv.expectedLength > 0
    /\ Len(c2r) = 2
    /\ rcvAct = "process"
    /\ delivered # <<>>
    /\ Len(delivered[Len(delivered)]) = rcv.expectedLength
    /\ rcv.buffer = <<>>
    /\ rcv.state = "idle"

\* the high and the low nibble of the first byte of a frame
PciType(frame) == frame[1] \div 16
PciLow(frame) == frame[1] % 16

\* the call of a step: writePDU of pdu', or didReceiveFrame of the last
\* frame of c2r'
StrictWrote == phase' = "wrote" /\ c2r' = c2r
StrictFed == Len(c2r') = Len(c2r) + 1

\* the call returned ProtocolViolation, and nothing else happened
ViolationKeepsState(act) ==
    /\ act = "protocolViolation"
    /\ rcv' = rcv
    /\ delivered' = delivered
    /\ c2s' = <<>>

\* the calls that the strict transceiver refuses
StrictRefusals ==
    LET frame == c2r'[Len(c2r')] IN
    /\ (StrictWrote /\ (Len(pdu') > 4095 \/ rcv.state # "idle")) =>
           ViolationKeepsState(sndAct')
    /\ (StrictFed /\ rcv.state = "sending"
                  /\ (PciType(frame) # 3 \/ PciLow(frame) \notin {0, 1})) =>
           ViolationKeepsState(rcvAct')
    /\ (StrictFed /\ rcv.state # "sending"
                  /\ \/ PciType(frame) \in {0, 1} /\ rcv.state # "idle"
                     \/ PciType(frame) = 2 /\ rcv.state # "receiving"
                     \/ PciType(frame) = 2 /\ PciLow(frame) # rcv.receivingSequenceNumber
                     \/ PciType(frame) = 3) =>
           ViolationKeepsState(rcvAct')

\* whatever the reason, a ProtocolViolation leaves the transceiver as it was
StrictViolationKeepsState ==
    /\ (StrictWrote /\ sndAct' = "protocolViolation") => rcv' = rcv
    /\ (StrictFed /\ rcvAct' = "protocolViolation") => rcv' = rcv

\* the valid frame continues the transfer from the state that was kept: the
\* Consecutive with the expected number adds its bytes to the pending
\* payload, the FlowControl ClearToSend releases the next bytes to send
StrictContinues ==
    LET frame == c2r'[Len(c2r')]
        w == rcv.width
        taken == Min(w - 1, rcv.receivingPendingCounter)
        joined == rcv.receivingPayload \o SubSeq(frame, 2, 1 + taken)
        next == Min(w - 1, Len(rcv.sendingPayload))
    IN
    /\ (StrictFed /\ rcv.state = "receiving" /\ PciType(frame) = 2
                  /\ PciLow(frame) = rcv.receivingSequenceNumber) =>
           /\ rcvAct' # "protocolViolation"
           /\ IF rcvAct' = "process"
              THEN delivered' = Append(delivered, joined)
              ELSE rcv'.receivingPayload = joined /\ rcv'.state = "receiving"
    /\ (StrictFed /\ rcv.state = "sending" /\ PciType(frame) = 3 /\ PciLow(frame) = 0) =>
           /\ rcvAct' = "writeFrames"
           /\ c2s' # <<>>
           /\ c2s'[1][1] = 32 + rcv.sendingSequenceNumber
           /\ SubSeq(c2s'[1], 2, 1 + next) = SubSeq(rcv.sendingPayload, 1, next)

\* C30: a strict transceiver answers writePDU of more than 4095 bytes or
\* while not idle, a frame that is no FlowControl while sending, a
\* FlowControl with status overflow or an undefined status, and a data frame
\* that is invalid for the state, with ProtocolViolation, and its state,
\* payloads, sequence numbers and counters stay as they were; a valid frame
\* afterwards continues the transfer.
C30_StrictKeepsState ==
    [][StrictRefusals /\ StrictViolationKeepsState /\ StrictContinues]_vars

\* a Consecutive with the wrong sequence number was refused in the middle of
\* a transfer, and the right Consecutive after it completed the transfer
C30_Witness ==
    /\ rcv.behavior = "strict"
    /\ Len(c2r) = 3
    /\ c2r[1] = FramesOfTransfer(TransferA(rcv.width), rcv.width)[1]
    /\ PciType(c2r[2]) = 2
    /\ PciLow(c2r[2]) = 2
    /\ c2r[3] = FramesOfTransfer(TransferA(rcv.width), rcv.width)[2]
    /\ delivered = <<TransferA(rcv.width)>>

\* the microseconds that the separation-time byte of a FlowControl encodes
EncodedMicroseconds(byte) ==
    IF byte <= 127 THEN byte * 1000
    ELSE IF byte \in 241..249 THEN (byte - 240) * 100
    ELSE 0

\* C31: the separation time of the WriteFrames that answers a FlowControl
\* ClearToSend is the larger of the microseconds its byte 2 encodes (0x00..0x7F
\* milliseconds, 0xF1..0xF9 100..900 microseconds, else 0) and the configured
\* TX separation time, for every byte value.
C31_SeparationTime ==
    [][(/\ phase = "running"
        /\ snd.state = "sending"
        /\ c2s' # <<>>
        /\ sndAct'.type = "writeFrames") =>
           sndAct'.separationTime =
               Max(EncodedMicroseconds(c2s'[1][3]), snd.txSeparationTime)]_vars

\* the lengths of CAN-FD frames; in extended mode the frame on the bus is one
\* byte longer than the frame of the transceiver
ValidFDLength(len, t) ==
    (IF t.mode = "extended" THEN len + 1 ELSE len) \in CANFDLengths

\* len is the smallest valid length of at least required bytes, and within
\* the maximum frame width
SmallestFDLength(len, required, t) ==
    /\ ValidFDLength(len, t)
    /\ len <= t.maxFrameWidth
    /\ len >= required
    /\ \A l \in required..(len - 1) : ~ValidFDLength(l, t)

\* the frames the sender emits in a step, if it is a step of the sender
EmittedBySender ==
    IF Len(c2r') >= Len(c2r) THEN SubSeq(c2r', Len(c2r) + 1, Len(c2r')) ELSE <<>>

\* the FlowControls the receiver emits in a step, if it is a step of the receiver
EmittedByReceiver ==
    IF Len(c2r') < Len(c2r) THEN SubSeq(c2s', Len(c2s) + 1, Len(c2s')) ELSE <<>>

\* PCI bytes plus data chunk of the j-th frame the sender emits in a step: a
\* Single holds the payload, a First fills the maximum width, a Consecutive
\* holds the next maxFrameWidth - 1 bytes or what is left
RequiredBytes(frame, j) ==
    IF PciType(frame) = 0 THEN Len(pdu) + (IF Len(pdu) <= 7 THEN 1 ELSE 2)
    ELSE IF PciType(frame) = 1 THEN snd.maxFrameWidth
    ELSE 1 + Min(snd.maxFrameWidth - 1,
                 Len(pdu) - snd.sendingPayloadOffset - (j - 1) * (snd.maxFrameWidth - 1))

\* C32: every frame a TransceiverFD emits (Single, First, Consecutive,
\* FlowControl), for every configured maximum width and both addressing
\* modes, has a valid CAN-FD length for the mode, does not exceed
\* maxFrameWidth, and is the smallest such length that holds the PCI bytes
\* and the data chunk.
C32_FDFrameLengths ==
    [][/\ \A j \in DOMAIN EmittedBySender :
             /\ PciType(EmittedBySender[j]) \in {0, 1, 2}
             /\ SmallestFDLength(Len(EmittedBySender[j]),
                                 RequiredBytes(EmittedBySender[j], j), snd)
       /\ \A j \in DOMAIN EmittedByReceiver :
             /\ PciType(EmittedByReceiver[j]) = 3
             /\ SmallestFDLength(Len(EmittedByReceiver[j]), 3, rcv)]_vars

\* a payload of 100 bytes has gone through First, FlowControls and
\* Consecutives in extended mode with the maximum width 23
C32_Witness ==
    /\ IsFD(snd)
    /\ snd.mode = "extended"
    /\ snd.maxFrameWidth = 23
    /\ rcv.blockSize = 1
    /\ Len(pdu) = 100
    /\ delivered = <<pdu>>
    /\ snd.state = "idle"

\* C33: a payload of 1..4095 bytes written to one TransceiverFD and fed frame
\* by frame to a second one of the same configuration, the FlowControls fed
\* back, is delivered as Process with the identical payload exactly once,
\* and both machines end idle: nothing but the payload is ever delivered, and
\* when no frame is left on the link the payload has been delivered.
C33_FDRoundTrip ==
    /\ delivered \in {<<>>, <<pdu>>}
    /\ LinkQuiet =>
           /\ delivered = <<pdu>>
           /\ snd.state = "idle"
           /\ rcv.state = "idle"

\* C34: closeChannel(handle) produces the tag 0x31 (CloseChannel) with the
\* one-byte payload [handle] in the library codec as well as in the J2534
\* codec, so that its frame differs from that of an OpenChannel PDU.
C34_CloseChannelTag ==
    (cdStage = "built" /\ "handle" \in DOMAIN cdOut) =>
        /\ cdPdu.type = 49
        /\ cdPdu.payload = <<cdOut.handle>>
        /\ cdWire = <<31, 49, 0, 1, cdOut.handle>>

(***************************************************************************)
(* Error translation of the device manager                                 *)
(***************************************************************************)
\* the last connect sent its OpenChannel request and failed
ConnectRequestFailed ==
    /\ dmCall.op = "connect"
    /\ dmCall.wire # <<>>
    /\ dmCall.status # STATUS_NOERROR

\* C35: a device-manager call whose session request was sent and got no
\* response within its timeout returns ERR_TIMEOUT, and one whose request
\* was answered by something else than the expected PDU returns ERR_FAILED;
\* stated for connect, the request being OpenChannel with a timeout of 1 s
C35_ErrorTranslation ==
    ConnectRequestFailed =>
        dmCall.status = (IF dmCall.reply = "none" THEN ERR_TIMEOUT ELSE ERR_FAILED)

(***************************************************************************)
(* Handles of the device manager                                           *)
(***************************************************************************)
\* the device and channel IDs registered now
DeviceIds == DOMAIN devices
ChannelIds == DOMAIN channelToDevice
    \cup UNION {DOMAIN devices[d].channels : d \in DOMAIN devices}

\* the step is an openDevice or connect that returned an ID
IssuesId ==
    /\ dmCall' # dmCall
    /\ dmCall'.op \in {"openDevice", "connect"}
    /\ dmCall'.status = STATUS_NOERROR

\* the step is an openDevice or connect that failed
FailsToIssue ==
    /\ dmCall'.op \in {"openDevice", "connect"}
    /\ dmCall'.status # STATUS_NOERROR

IdsBelowCounter ==
    /\ \A i \in DeviceIds \cup ChannelIds : i < nextDeviceId
    /\ DeviceIds \cap ChannelIds = {}
    /\ dmCall.id < nextDeviceId

IdStep ==
    /\ nextDeviceId' >= nextDeviceId
    /\ IssuesId => (dmCall'.id = nextDeviceId /\ nextDeviceId' = nextDeviceId + 1)
    /\ FailsToIssue => (nextDeviceId' = nextDeviceId)

\* C36: every ID a successful openDevice or connect returns is the value of
\* the shared counter, which then grows by one and never shrinks, so the ID
\* is greater than every ID returned before, is never reused after a close
\* and never denotes both a device and a channel; a failing openDevice or
\* connect leaves the counter alone
C36_HandleUniqueness == []IdsBelowCounter /\ [][IdStep]_vars

\* an ID is issued to a channel after device 1, the first ID, was closed
C36_Witness ==
    /\ dmCall.op = "connect"
    /\ dmCall.status = STATUS_NOERROR
    /\ dmCall.id = 3
    /\ 1 \notin DeviceIds

(***************************************************************************)
(* The side map and the channel maps                                       *)
(***************************************************************************)
\* the pairs <<channel, device>> of the side map, and of the channel maps of
\* the registered devices
SideMapPairs == {<<c, channelToDevice[c]>> : c \in DOMAIN channelToDevice}
OwnedPairs ==
    UNION {{<<c, d>> : c \in DOMAIN devices[d].channels} : d \in DOMAIN devices}

\* C37: channelToDevice maps c to d exactly when d is a registered device
\* and c is a key of d's channel map, in every state that openDevice,
\* closeDevice, connect and disconnect reach
C37_RegistryConsistency == SideMapPairs = OwnedPairs

\* a device was closed while another device's channel stays registered
C37_Witness ==
    /\ dmCall.op = "closeDevice"
    /\ dmCall.status = STATUS_NOERROR
    /\ SideMapPairs # {}

(***************************************************************************)
(* readMsgs on a second caller thread                                      *)
(***************************************************************************)
\* Channel* DeviceManager::getChannel: the channel id when all three lookups
\* succeed, nothing (nullptr) otherwise
getChannel(channelId) ==
    IF channelId \notin DOMAIN channelToDevice THEN <<>>
    ELSE IF channelToDevice[channelId] \notin DOMAIN devices THEN <<>>
    ELSE IF channelId \notin DOMAIN devices[channelToDevice[channelId]].channels THEN <<>>
    ELSE <<channelId>>

\* long DeviceManager::readMsgs, up to the release of the manager's mutex_:
\* the Channel pointer is taken under the lock_guard and kept after it
ReadMsgsBegin(channelId, requested, timeout) ==
    /\ ~terminated
    /\ reader.pc = "idle"
    /\ mutexOwner = FREE
    /\ reader' =
          IF getChannel(channelId) = <<>>
          THEN [NoReader EXCEPT !.status = ERR_INVALID_CHANNEL_ID]
          ELSE [NoReader EXCEPT !.pc = "holding", !.channel = channelId,
                                !.requested = requested, !.timeout = timeout]
    /\ UNCHANGED <<devices, channelToDevice, nextDeviceId, mutexOwner, terminated, apiPc,
                   apiArg, pollPc, pollFrames, rxLeft, dmCall, notDm>>

\* long DeviceManager::readMsgs, from the lock of channel->rxMutex to the
\* return: the wait on rxCv has ended, by a notification or by the timeout,
\* and up to requested messages leave the queue. When the Channel has been
\* destroyed in between, the lock and the queue are freed memory: the call
\* may crash or return anything.
ReadMsgsEnd ==
    /\ ~terminated
    /\ reader.pc = "holding"
    /\ IF getChannel(reader.channel) # <<>>
       THEN LET d == channelToDevice[reader.channel]
                queue == devices[d].channels[reader.channel].rxQueue
                n == Min(reader.requested, Len(queue))
            IN  /\ devices' = [devices EXCEPT ![d].channels[reader.channel].rxQueue =
                                  SubSeq(queue, n + 1, Len(queue))]
                /\ reader' = [NoReader EXCEPT
                                 !.numMsgs = n,
                                 !.status = IF n > 0 THEN STATUS_NOERROR
                                            ELSE IF reader.timeout > 0 THEN ERR_TIMEOUT
                                            ELSE ERR_BUFFER_EMPTY]
                /\ UNCHANGED terminated
       ELSE \E crash \in BOOLEAN, n \in 0..reader.requested :
                /\ terminated' = crash
                /\ reader' = [NoReader EXCEPT
                                 !.numMsgs = n,
                                 !.freed = TRUE,
                                 !.status = IF n > 0 THEN STATUS_NOERROR
                                            ELSE IF reader.timeout > 0 THEN ERR_TIMEOUT
                                            ELSE ERR_BUFFER_EMPTY]
                /\ UNCHANGED devices
    /\ UNCHANGED <<channelToDevice, nextDeviceId, mutexOwner, apiPc, apiArg, pollPc,
                   pollFrames, rxLeft, dmCall, notDm>>

NextRead ==
    \/ NextDM
    \/ \E c \in 1..MaxIds, timeout \in {0, 100} : ReadMsgsBegin(c, 1, timeout)
    \/ ReadMsgsEnd

SpecRead == InitDM /\ [][NextRead]_vars

\* the step is the second half of readMsgs, which works on the Channel
ReaderUsesChannel == reader.pc = "holding" /\ reader'.pc = "idle"

\* the step is the polling thread of d working on its Device outside or
\* inside the manager's mutex_
PollerUsesDevice(d) == pollPc[d] \in {"recv", "deliver"} /\ pollPc'[d] # pollPc[d]

UsesLiveRecords ==
    /\ ReaderUsesChannel => getChannel(reader.channel) # <<>>
    /\ \A d \in 1..MaxIds : PollerUsesDevice(d) => d \in DOMAIN devices

SendingInvariant(t) ==
    t.state = "sending" =>
        (t.sendingPayload # <<>> /\ t.sendingSequenceNumber \in 0..15)

ReceivingInvariant(t) ==
    t.state = "receiving" =>
        (t.receivingPendingCounter > 0 /\ t.receivingUnconfirmedFramesCounter > 0)

IdleInvariant(t) ==
    t.state = "idle" =>
        /\ t.sendingPayload = <<>>
        /\ t.receivingPayload = <<>>
        /\ t.sendingSequenceNumber = 0
        /\ t.receivingSequenceNumber = 0
        /\ t.receivingPendingCounter = 0
        /\ t.receivingUnconfirmedFramesCounter = 0

\* the bytes received and the bytes still pending
ReceivingTotal(t) == Len(t.receivingPayload) + t.receivingPendingCounter

\* a step that changes the transceiver and leaves it receiving is a frame
\* taking effect: a First frame starts a transfer (in defensive mode also in
\* the middle of another), and the total then equals its length field; a
\* Consecutive frame continues the transfer and keeps the total
AnnouncedLengthKept ==
    (rcv' # rcv /\ rcv'.state = "receiving") =>
        /\ c2r' # <<>>
        /\ c2r'[1] # <<>>
        /\ IF Frame_type(c2r'[1]) = "first"
           THEN ReceivingTotal(rcv') = Frame_firstLength(c2r'[1])
           ELSE /\ Frame_type(c2r'[1]) = "consecutive"
                /\ rcv.state = "receiving"
                /\ ReceivingTotal(rcv') = ReceivingTotal(rcv)

\* C39: while sending, the pending send payload is non-empty and the send
\* sequence number is 0..15; while receiving, the pending-byte and the
\* unconfirmed-frame counters are positive and received plus pending bytes
\* make the announced length; while idle, both buffers are empty and every
\* counter is 0; under any order of writePDU, didReceiveFrame and reset
C39_StateInvariants ==
    /\ [](SendingInvariant(rcv) /\ ReceivingInvariant(rcv) /\ IdleInvariant(rcv))
    /\ [][AnnouncedLengthKept]_vars

\* the receiver has confirmed a block and reloaded its counter
C39_Witness ==
    /\ phase = "didReceiveFrame"
    /\ rcv.state = "receiving"
    /\ rcv.blockSize > 0
    /\ rcv.receivingUnconfirmedFramesCounter = rcv.blockSize
    /\ Len(rcv.receivingPayload) > rcv.width

(***************************************************************************)
(* The FlowControl frames of a receiver                                    *)
(***************************************************************************)
\* the STmin byte of ISO 15765-2 for a separation time it can represent:
\* whole milliseconds up to 127, and 100..900 microseconds as 0xF1..0xF9
StMinByte(microseconds) ==
    IF microseconds % 1000 = 0 THEN microseconds \div 1000
    ELSE 240 + microseconds \div 100

\* the FlowControl ClearToSend frames on their way to the sender
ClearToSendFrames ==
    {k \in DOMAIN c2s : /\ Len(c2s[k]) >= 3
                        /\ Frame_type(c2s[k]) = "flowControl"
                        /\ Frame_flowStatus(c2s[k]) = "clearToSend"}

\* C40: every FlowControl ClearToSend a receiver emits carries its configured
\* block size in byte 1 and in byte 2 the STmin encoding of its configured
\* RX separation time, which separationTimeToMicroseconds turns back into
\* the configured value
C40_FlowControlParameters ==
    \A k \in ClearToSendFrames :
        /\ c2s[k][2] = rcv.blockSize
        /\ c2s[k][3] = StMinByte(rcv.rxSeparationTime)
        /\ Frame_separationTime(c2s[k]) = rcv.rxSeparationTime

====
